---- MODULE Spec2Model ----
(***************************************************************************)
(* norimaki-db: an ordered key-value store (MemoryStore, FileStore), the   *)
(* key codec, the value codec and the BoatRaceEngine built on them.        *)
(*                                                                         *)
(* Strings are sequences of Unicode code points.  Rust compares str values *)
(* byte-wise on their UTF-8 encoding, which orders strings exactly as the  *)
(* lexicographic order of their code points does.                          *)
(***************************************************************************)
EXTENDS Integers, Sequences, FiniteSets, TLC

VARIABLES
    backend,    \* which KeyValueStore implementation the handle is
    data,       \* the store's HashMap<String, String>
    disk,       \* the file behind a FileStore
    call,       \* the last store call: its name, arguments and result
    lastPut,    \* history variable: per key, the value of the latest put
                \* that no delete or clear followed (<<>> when there is none)
    kin,        \* key codec: the function applied and its arguments
    kout,       \* key codec: what the function returned
    ecall,      \* the last engine call: its name, arguments and result
    lastRace    \* history variable: per (group id, timestamp), the payload of
                \* the latest put_race_data (<<>> when there is none)

vars == <<backend, data, disk, call, lastPut, kin, kout, ecall, lastRace>>

\* the variables of a directly driven store
storeVars == <<call, lastPut>>
\* the variables of the key codec calls
codecVars == <<kin, kout>>
\* the variables of the engine calls
engineVars == <<ecall, lastRace>>

-----------------------------------------------------------------------------
(* Bounds of the model *)

MaxNameLen == 3     \* venue and event names drawn exhaustively have at most this many chars
MaxSchedLen == 2    \* a MonthlySchedule passed to the engine has at most this many events

-----------------------------------------------------------------------------
(* Strings *)

RECURSIVE StrLess(_, _)
\* a < b for str: lexicographic, a proper prefix is smaller
StrLess(a, b) ==
    IF b = <<>> THEN FALSE
    ELSE IF a = <<>> THEN TRUE
    ELSE IF Head(a) < Head(b) THEN TRUE
    ELSE IF Head(a) > Head(b) THEN FALSE
    ELSE StrLess(Tail(a), Tail(b))

\* a >= b for str
StrGeq(a, b) == ~StrLess(a, b)

-----------------------------------------------------------------------------
(* Results: Result<T> with T one of (), Option<String>, Vec<...> *)

OkUnit == [tag |-> "Ok", err |-> "", opt |-> <<>>, list |-> <<>>]
OkOpt(o) == [tag |-> "Ok", err |-> "", opt |-> o, list |-> <<>>]
OkList(l) == [tag |-> "Ok", err |-> "", opt |-> <<>>, list |-> l]
Err(e) == [tag |-> "Err", err |-> e, opt |-> <<>>, list |-> <<>>]

\* Option<String>: None is <<>>, Some(v) is <<v>>
None == <<>>
Some(v) == <<v>>

-----------------------------------------------------------------------------
(* HashMap<String, String> as a function with a finite domain *)

EmptyMap == [k \in {} |-> <<>>]

\* mutant: insert that keeps the value of a key already present
MapInsert_keepOld(d, k, v) == [x \in DOMAIN d \cup {k} |-> IF x \in DOMAIN d THEN d[x] ELSE v]

\* HashMap::insert
MapInsert(d, k, v) == [x \in DOMAIN d \cup {k} |-> IF x = k THEN v ELSE d[x]]

\* HashMap::remove
MapRemove(d, k) == [x \in DOMAIN d \ {k} |-> d[x]]

\* HashMap::get(..).cloned()
MapGet(d, k) == IF k \in DOMAIN d THEN Some(d[k]) ELSE None

\* the orders in which iterating a HashMap may yield its keys
IterOrders(d) ==
    LET n == Cardinality(DOMAIN d)
    IN  {o \in [1..n -> DOMAIN d] : \A i, j \in 1..n : i # j => o[i] # o[j]}

RECURSIVE ScanLoop_inclusiveEnd(_, _, _, _)
\* mutant: the loop of scan with key <= end in place of key < end
ScanLoop_inclusiveEnd(d, order, start, end) ==
    IF order = <<>> THEN <<>>
    ELSE LET key == Head(order)
             rest == ScanLoop_inclusiveEnd(d, Tail(order), start, end)
         IN  IF StrGeq(key, start) /\ ~StrLess(end, key)
             THEN <<(<<key, d[key]>>)>> \o rest
             ELSE rest

RECURSIVE ScanLoop(_, _, _, _)
\* the loop of scan over the entries in iteration order
ScanLoop(d, order, start, end) ==
    IF order = <<>> THEN <<>>
    ELSE LET key == Head(order)
             rest == ScanLoop(d, Tail(order), start, end)
         IN  IF StrGeq(key, start) /\ StrLess(key, end)
             THEN <<(<<key, d[key]>>)>> \o rest
             ELSE rest

-----------------------------------------------------------------------------
(* MemoryStore *)

MemoryStore_new == EmptyMap

\* mutant: put without the empty-key check
MemoryStore_put_unchecked(d, key, value) ==
    [res |-> OkUnit, data |-> MapInsert(d, key, value)]

MemoryStore_put(d, key, value) ==
    IF key = <<>> THEN [res |-> Err("InvalidKey"), data |-> d]
    ELSE [res |-> OkUnit, data |-> MapInsert(d, key, value)]

MemoryStore_get(d, key) ==
    IF key = <<>> THEN Err("InvalidKey")
    ELSE OkOpt(MapGet(d, key))

MemoryStore_delete(d, key) ==
    IF key = <<>> THEN [res |-> Err("InvalidKey"), data |-> d]
    ELSE [res |-> OkUnit, data |-> MapRemove(d, key)]

MemoryStore_keys(d, order) == OkList(order)

MemoryStore_clear(d) == [res |-> OkUnit, data |-> EmptyMap]

MemoryStore_scan(d, order, start, end) ==
    IF start = <<>> \/ end = <<>> THEN Err("InvalidKey")
    ELSE OkList(ScanLoop(d, order, start, end))

-----------------------------------------------------------------------------
(* FileStore *)

\* the file: missing, or holding a whole snapshot, nothing, or a cut-off write
NoFile == [state |-> "missing", data |-> EmptyMap]
Snapshot(d) == [state |-> "snapshot", data |-> d]
EmptyFile == [state |-> "empty", data |-> EmptyMap]
PartialFile == [state |-> "partial", data |-> EmptyMap]

\* what the file system does to one save: every step works, or open, write_all
\* or sync_all fails
SaveOutcomes == {"ok", "open_err", "write_err", "sync_err"}

\* FileStore::save: open (create, truncate), write_all, sync_all
FileStore_save(d, dsk, io) ==
    CASE io = "open_err"  -> [res |-> Err("IoError"), disk |-> dsk]
      [] io = "write_err" -> [res |-> Err("IoError"), disk |-> PartialFile]
      [] io = "sync_err"  -> [res |-> Err("IoError"), disk |-> Snapshot(d)]
      [] OTHER            -> [res |-> OkUnit, disk |-> Snapshot(d)]

\* serde_json: the text of one char inside a string
format_escaped_char(c) ==
    CASE c = 34 -> <<92, 34>>
      [] c = 92 -> <<92, 92>>
      [] c = 8  -> <<92, 98>>
      [] c = 12 -> <<92, 102>>
      [] c = 10 -> <<92, 110>>
      [] c = 13 -> <<92, 114>>
      [] c = 9  -> <<92, 116>>
      [] c < 32 /\ c \notin {8, 9, 10, 12, 13} ->
            <<92, 117, 48, 48, 48 + (c \div 16),
              IF c % 16 < 10 THEN 48 + (c % 16) ELSE 87 + (c % 16)>>
      [] OTHER  -> <<c>>

RECURSIVE EscapeFrom(_, _, _)
EscapeFrom(str, pos, acc) ==
    IF pos > Len(str) THEN acc
    ELSE EscapeFrom(str, pos + 1, acc \o format_escaped_char(str[pos]))

\* mutant: the string between quotes as it is
format_escaped_str_raw(str) == <<34>> \o str \o <<34>>

\* serde_json: a string between quotes, with '"', '\' and control chars escaped
format_escaped_str(str) == <<34>> \o EscapeFrom(str, 1, <<>>) \o <<34>>

RECURSIVE PrettyEntries(_, _, _, _)
\* the entries of the map in iteration order, one per line, 4 spaces deep
PrettyEntries(d, order, i, acc) ==
    IF i > Len(order) THEN acc
    ELSE PrettyEntries(d, order, i + 1,
             acc \o (IF i = 1 THEN <<10>> ELSE <<44, 10>>) \o <<32, 32, 32, 32>>
                 \o format_escaped_str(order[i]) \o <<58, 32>>
                 \o format_escaped_str(d[order[i]]))

\* serde_json::to_string_pretty(&FileData { data: d }): the object with the
\* one field "data", 2 spaces per level; an empty map is {}
to_string_pretty(d, order) ==
    <<123, 10, 32, 32, 34, 100, 97, 116, 97, 34, 58, 32, 123>>
        \o (IF order = <<>> THEN <<>> ELSE PrettyEntries(d, order, 1, <<>>) \o <<10, 32, 32>>)
        \o <<125, 10, 125>>

\* JSON whitespace
JsonWs == {32, 10, 13, 9}

RECURSIVE SkipWs(_, _)
\* the position of the next char that is not whitespace
SkipWs(text, pos) ==
    IF pos <= Len(text) /\ text[pos] \in JsonWs THEN SkipWs(text, pos + 1) ELSE pos

\* the char at pos, -1 at the end of the text
CharAt(text, pos) == IF pos <= Len(text) THEN text[pos] ELSE -1

\* the value of a hex digit, -1 for any other char
HexValue(c) ==
    IF c \in 48..57 THEN c - 48
    ELSE IF c \in 97..102 THEN c - 87
    ELSE IF c \in 65..70 THEN c - 55 ELSE -1

\* the 4 hex digits at pos as a number, -1 if they are not hex digits
Hex4(text, pos) ==
    LET h(i) == HexValue(CharAt(text, pos + i))
    IN  IF \E i \in 0..3 : h(i) = -1 THEN -1
        ELSE (h(0) * 4096) + (h(1) * 256) + (h(2) * 16) + h(3)

ParseFailed(pos) == [ok |-> FALSE, val |-> <<>>, pos |-> pos]

RECURSIVE ParseChars(_, _, _)
\* serde_json: the chars of a string up to its closing quote; a raw control
\* char, an unknown escape and a lone surrogate are errors
ParseChars(text, pos, acc) ==
    LET c == CharAt(text, pos)
        e == CharAt(text, pos + 1)
    IN  IF c = -1 \/ (c >= 0 /\ c < 32) THEN ParseFailed(pos)
        ELSE IF c = 34 THEN [ok |-> TRUE, val |-> acc, pos |-> pos + 1]
        ELSE IF c # 92 THEN ParseChars(text, pos + 1, Append(acc, c))
        ELSE IF e \in {34, 92, 47} THEN ParseChars(text, pos + 2, Append(acc, e))
        ELSE IF e = 98 THEN ParseChars(text, pos + 2, Append(acc, 8))
        ELSE IF e = 102 THEN ParseChars(text, pos + 2, Append(acc, 12))
        ELSE IF e = 110 THEN ParseChars(text, pos + 2, Append(acc, 10))
        ELSE IF e = 114 THEN ParseChars(text, pos + 2, Append(acc, 13))
        ELSE IF e = 116 THEN ParseChars(text, pos + 2, Append(acc, 9))
        ELSE IF e # 117 THEN ParseFailed(pos)
        ELSE LET u == Hex4(text, pos + 2)
                 lo == Hex4(text, pos + 8)
             IN  IF u = -1 THEN ParseFailed(pos)
                 ELSE IF u \notin 55296..57343 THEN ParseChars(text, pos + 6, Append(acc, u))
                 ELSE IF u <= 56319 /\ CharAt(text, pos + 6) = 92
                         /\ CharAt(text, pos + 7) = 117 /\ lo \in 56320..57343
                 THEN ParseChars(text, pos + 12,
                          Append(acc, 65536 + ((u - 55296) * 1024) + (lo - 56320)))
                 ELSE ParseFailed(pos)

\* the element of a set of one element; {e(x) : x \in {v}} computes v once
\* and e on its value
The(S) == CHOOSE x \in S : TRUE

\* a JSON string at pos
ParseString(text, pos) ==
    The({IF CharAt(text, at) # 34 THEN ParseFailed(at) ELSE ParseChars(text, at + 1, <<>>) :
            at \in {pos}})

RECURSIVE ParseEntries(_, _, _)
\* the entries of a HashMap<String, String> from the first key on; a key
\* that comes twice keeps its last value
ParseEntries(text, pos, acc) ==
    The({The({LET colon == SkipWs(text, key.pos)
                  after == SkipWs(text, value.pos)
              IN  IF ~key.ok \/ CharAt(text, colon) # 58 \/ ~value.ok
                  THEN ParseFailed(key.pos)
                  ELSE IF CharAt(text, after) = 125
                  THEN [ok |-> TRUE, val |-> MapInsert(entries, key.val, value.val),
                        pos |-> after + 1]
                  ELSE IF CharAt(text, after) = 44
                  THEN ParseEntries(text, SkipWs(text, after + 1),
                           MapInsert(entries, key.val, value.val))
                  ELSE ParseFailed(after) :
                value \in {IF key.ok
                           THEN ParseString(text, SkipWs(text, SkipWs(text, key.pos) + 1))
                           ELSE ParseFailed(key.pos)}}) :
            key \in {ParseString(text, pos)}, entries \in {acc}})

\* a HashMap<String, String> at pos: { } or { "k": "v", ... }
ParseMap(text, pos) ==
    The({LET first == SkipWs(text, at + 1)
         IN  IF CharAt(text, at) # 123 THEN ParseFailed(at)
             ELSE IF CharAt(text, first) = 125
             THEN [ok |-> TRUE, val |-> EmptyMap, pos |-> first + 1]
             ELSE ParseEntries(text, first, EmptyMap) :
            at \in {pos}})

\* serde_json::from_str::<FileData>: an object whose one field is "data", a
\* map; nothing but whitespace may follow. Objects with other fields are not
\* among the file contents here.
from_str(text) ==
    The({The({LET open == SkipWs(text, 1)
                  colon == SkipWs(text, name.pos)
                  close == SkipWs(text, map.pos)
              IN  IF /\ CharAt(text, open) = 123
                     /\ name.ok /\ name.val = <<100, 97, 116, 97>>
                     /\ CharAt(text, colon) = 58
                     /\ map.ok
                     /\ CharAt(text, close) = 125
                     /\ SkipWs(text, close + 1) > Len(text)
                  THEN [ok |-> TRUE, val |-> map.val]
                  ELSE [ok |-> FALSE, val |-> EmptyMap] :
                map \in {IF name.ok
                         THEN ParseMap(text, SkipWs(text, SkipWs(text, name.pos) + 1))
                         ELSE ParseFailed(name.pos)}}) :
            name \in {ParseString(text, SkipWs(text, SkipWs(text, 1) + 1))}})

\* a file of whitespace only: a space and a line feed
BlankFile == [state |-> "blank", data |-> EmptyMap]

\* the chars with the Unicode property White_Space
White_Space ==
    (9..13) \cup {32, 133, 160, 5760} \cup (8192..8202) \cup {8232, 8233, 8239, 8287, 12288}

\* what read_to_string finds in a file that exists and was written whole; a
\* snapshot holds the entries in the order the map was iterated in
FileContents(dsk, order) ==
    CASE dsk.state = "empty" -> <<>>
      [] dsk.state = "blank" -> <<32, 10>>
      [] OTHER               -> to_string_pretty(dsk.data, order)

\* FileStore::load, as called by FileStore::new on a fresh handle: no file and
\* a file of whitespace leave the map empty; a cut-off write does not parse
FileStore_load(dsk, order) ==
    IF dsk.state = "missing" THEN [res |-> OkUnit, data |-> EmptyMap]
    ELSE IF dsk.state = "partial" THEN [res |-> Err("SerializationError"), data |-> EmptyMap]
    ELSE The({IF \A i \in 1..Len(contents) : contents[i] \in White_Space
              THEN [res |-> OkUnit, data |-> EmptyMap]
              ELSE The({IF ~file_data.ok
                        THEN [res |-> Err("SerializationError"), data |-> EmptyMap]
                        ELSE [res |-> OkUnit, data |-> file_data.val] :
                          file_data \in {from_str(contents)}}) :
                contents \in {FileContents(dsk, order)}})

FileStore_put(d, dsk, key, value, io) ==
    IF key = <<>> THEN [res |-> Err("InvalidKey"), data |-> d, disk |-> dsk]
    ELSE LET d2 == MapInsert(d, key, value)
             s == FileStore_save(d2, dsk, io)
         IN  [res |-> s.res, data |-> d2, disk |-> s.disk]

FileStore_get(d, key) ==
    IF key = <<>> THEN Err("InvalidKey")
    ELSE OkOpt(MapGet(d, key))

FileStore_delete(d, dsk, key, io) ==
    IF key = <<>> THEN [res |-> Err("InvalidKey"), data |-> d, disk |-> dsk]
    ELSE LET d2 == MapRemove(d, key)
             s == FileStore_save(d2, dsk, io)
         IN  [res |-> s.res, data |-> d2, disk |-> s.disk]

FileStore_keys(d, order) == OkList(order)

FileStore_clear(d, dsk, io) ==
    LET s == FileStore_save(EmptyMap, dsk, io)
    IN  [res |-> s.res, data |-> EmptyMap, disk |-> s.disk]

FileStore_scan(d, order, start, end) ==
    IF start = <<>> \/ end = <<>> THEN Err("InvalidKey")
    ELSE OkList(ScanLoop(d, order, start, end))

-----------------------------------------------------------------------------
(* The store driven directly: any sequence of calls on one handle *)

\* the keys and scan bounds of the calls: "", "a", "ab", "b"
Keys == {<<>>, <<97>>, <<97, 98>>, <<98>>}
Values == {<<120>>, <<121>>}                    \* "x", "y"

\* the key codec is not exercised
NoInput == [fn |-> "none", n1 |-> 0, n2 |-> 0, s1 |-> <<>>, s2 |-> <<>>, t1 |-> <<>>, t2 |-> <<>>]
NoOutput == [done |-> FALSE, r1 |-> <<>>, r2 |-> <<>>, r3 |-> <<>>]

\* the engine is not exercised
NoEngineCall == [op |-> "none", args |-> <<>>, res |-> [tag |-> "Ok", err |-> "", val |-> <<>>]]
NoRace == <<>>

NoCall == [op |-> "none", a |-> <<>>, b |-> <<>>, res |-> OkUnit]
Called(op, a, b, res) == [op |-> op, a |-> a, b |-> b, res |-> res]

NeverPut == [k \in Keys \ {<<>>} |-> None]

StoreInit ==
    /\ backend \in {"MemoryStore", "FileStore"}
    /\ data = MemoryStore_new
    /\ disk = NoFile
    /\ call = NoCall
    /\ lastPut = NeverPut
    /\ kin = NoInput
    /\ kout = NoOutput
    /\ ecall = NoEngineCall
    /\ lastRace = NoRace

MemPut(k, v) ==
    /\ UNCHANGED <<codecVars, engineVars>>
    /\ backend = "MemoryStore"
    /\ LET r == MemoryStore_put(data, k, v)
       IN  /\ data' = r.data
           /\ call' = Called("put", k, v, r.res)
    /\ lastPut' = IF k = <<>> THEN lastPut ELSE [lastPut EXCEPT ![k] = Some(v)]
    /\ UNCHANGED <<backend, disk>>

MemGet(k) ==
    /\ UNCHANGED <<codecVars, engineVars>>
    /\ backend = "MemoryStore"
    /\ call' = Called("get", k, <<>>, MemoryStore_get(data, k))
    /\ UNCHANGED <<backend, data, disk, lastPut>>

MemDelete(k) ==
    /\ UNCHANGED <<codecVars, engineVars>>
    /\ backend = "MemoryStore"
    /\ LET r == MemoryStore_delete(data, k)
       IN  /\ data' = r.data
           /\ call' = Called("delete", k, <<>>, r.res)
    /\ lastPut' = IF k = <<>> THEN lastPut ELSE [lastPut EXCEPT ![k] = None]
    /\ UNCHANGED <<backend, disk>>

MemKeys ==
    /\ UNCHANGED <<codecVars, engineVars>>
    /\ backend = "MemoryStore"
    /\ \E order \in IterOrders(data) :
          call' = Called("keys", <<>>, <<>>, MemoryStore_keys(data, order))
    /\ UNCHANGED <<backend, data, disk, lastPut>>

MemClear ==
    /\ UNCHANGED <<codecVars, engineVars>>
    /\ backend = "MemoryStore"
    /\ LET r == MemoryStore_clear(data)
       IN  /\ data' = r.data
           /\ call' = Called("clear", <<>>, <<>>, r.res)
    /\ lastPut' = NeverPut
    /\ UNCHANGED <<backend, disk>>

MemScan(start, end) ==
    /\ UNCHANGED <<codecVars, engineVars>>
    /\ backend = "MemoryStore"
    /\ \E order \in IterOrders(data) :
          call' = Called("scan", start, end, MemoryStore_scan(data, order, start, end))
    /\ UNCHANGED <<backend, data, disk, lastPut>>

FilePut(k, v, io) ==
    /\ UNCHANGED <<codecVars, engineVars>>
    /\ backend = "FileStore"
    /\ LET r == FileStore_put(data, disk, k, v, io)
       IN  /\ data' = r.data
           /\ disk' = r.disk
           /\ call' = Called("put", k, v, r.res)
    /\ lastPut' = IF k = <<>> THEN lastPut ELSE [lastPut EXCEPT ![k] = Some(v)]
    /\ UNCHANGED backend

FileGet(k) ==
    /\ UNCHANGED <<codecVars, engineVars>>
    /\ backend = "FileStore"
    /\ call' = Called("get", k, <<>>, FileStore_get(data, k))
    /\ UNCHANGED <<backend, data, disk, lastPut>>

FileDelete(k, io) ==
    /\ UNCHANGED <<codecVars, engineVars>>
    /\ backend = "FileStore"
    /\ LET r == FileStore_delete(data, disk, k, io)
       IN  /\ data' = r.data
           /\ disk' = r.disk
           /\ call' = Called("delete", k, <<>>, r.res)
    /\ lastPut' = IF k = <<>> THEN lastPut ELSE [lastPut EXCEPT ![k] = None]
    /\ UNCHANGED backend

FileKeys ==
    /\ UNCHANGED <<codecVars, engineVars>>
    /\ backend = "FileStore"
    /\ \E order \in IterOrders(data) :
          call' = Called("keys", <<>>, <<>>, FileStore_keys(data, order))
    /\ UNCHANGED <<backend, data, disk, lastPut>>

FileClear(io) ==
    /\ UNCHANGED <<codecVars, engineVars>>
    /\ backend = "FileStore"
    /\ LET r == FileStore_clear(data, disk, io)
       IN  /\ data' = r.data
           /\ disk' = r.disk
           /\ call' = Called("clear", <<>>, <<>>, r.res)
    /\ lastPut' = NeverPut
    /\ UNCHANGED backend

FileScan(start, end) ==
    /\ UNCHANGED <<codecVars, engineVars>>
    /\ backend = "FileStore"
    /\ \E order \in IterOrders(data) :
          call' = Called("scan", start, end, FileStore_scan(data, order, start, end))
    /\ UNCHANGED <<backend, data, disk, lastPut>>

StoreNext ==
    \/ \E k \in Keys, v \in Values : MemPut(k, v)
    \/ \E k \in Keys : MemGet(k)
    \/ \E k \in Keys : MemDelete(k)
    \/ MemKeys
    \/ MemClear
    \/ \E s, e \in Keys : MemScan(s, e)
    \/ \E k \in Keys, v \in Values, io \in SaveOutcomes : FilePut(k, v, io)
    \/ \E k \in Keys : FileGet(k)
    \/ \E k \in Keys, io \in SaveOutcomes : FileDelete(k, io)
    \/ FileKeys
    \/ \E io \in SaveOutcomes : FileClear(io)
    \/ \E s, e \in Keys : FileScan(s, e)

SpecStore == StoreInit /\ [][StoreNext]_vars

-----------------------------------------------------------------------------
(* Claims about the store *)

\* get on the handle, whichever backend it is
StoreGet(k) ==
    IF backend = "MemoryStore" THEN MemoryStore_get(data, k) ELSE FileStore_get(data, k)

\* C1: on both backends, after any sequence of put/delete/clear calls, get(k) of a
\* non-empty key returns Some(v) for the v of the latest put(k, v) that no
\* delete(k) or clear() followed, and Ok(None) when there is no such put.
C1_GetReturnsLatestPut ==
    /\ \A k \in Keys \ {<<>>} : StoreGet(k) = OkOpt(lastPut[k])
    /\ (call.op = "get" /\ call.a # <<>>) => call.res = OkOpt(lastPut[call.a])

\* a get that returns the second value put under a key, on a FileStore
C1_Witness ==
    /\ backend = "FileStore"
    /\ call.op = "get"
    /\ call.a = <<97, 98>>
    /\ call.res = OkOpt(Some(<<121>>))
    /\ \E k \in Keys \ {<<>>} : lastPut[k] = None

\* a is a prefix of b
IsPrefix(a, b) == Len(a) <= Len(b) /\ \A i \in 1..Len(a) : a[i] = b[i]

\* a <= b in lexicographic order: a is a prefix of b, or a is smaller at the
\* first place where they differ
LexLeq(a, b) ==
    \/ IsPrefix(a, b)
    \/ \E i \in 1..Len(a) :
          /\ i <= Len(b)
          /\ a[i] < b[i]
          /\ \A j \in 1..(i - 1) : a[j] = b[j]

\* the entries of the store with start <= key < end
InRange(start, end) ==
    {<<k, data[k]>> : k \in {x \in DOMAIN data : LexLeq(start, x) /\ ~LexLeq(end, x)}}

\* the exact-range part of C2: one pair per stored key in [start, end), with
\* its current value, nothing else, and never the key equal to end
ScanIsExact(c) ==
    /\ c.res.tag = "Ok"
    /\ {c.res.list[i] : i \in 1..Len(c.res.list)} = InRange(c.a, c.b)
    /\ Len(c.res.list) = Cardinality(InRange(c.a, c.b))
    /\ \A i \in 1..Len(c.res.list) : c.res.list[i][1] # c.b

\* the scan returned the key equal to its start bound
StartReturned(c) == \E i \in 1..Len(c.res.list) : c.res.list[i][1] = c.a

\* C2 as stated: scan(start, end) with non-empty bounds returns exactly one pair
\* per stored key k with start <= k < end, carrying its current value, and
\* nothing else; a stored key equal to end is never returned and a stored key
\* equal to start is returned.
C2_Original ==
    (call.op = "scan" /\ call.a # <<>> /\ call.b # <<>>) =>
        /\ ScanIsExact(call)
        /\ call.a \in DOMAIN data => StartReturned(call)

\* C2 (amended): as above, but a stored key equal to start is returned only
\* when start < end; for start >= end the range is empty and nothing is returned.
C2_ScanExactRange ==
    (call.op = "scan" /\ call.a # <<>> /\ call.b # <<>>) =>
        /\ ScanIsExact(call)
        /\ (call.a \in DOMAIN data /\ ~LexLeq(call.b, call.a)) => StartReturned(call)
        /\ LexLeq(call.b, call.a) => call.res.list = <<>>

\* a scan whose bounds are both stored keys: start is returned, end is not
C2_Witness ==
    /\ call.op = "scan"
    /\ call.a \in DOMAIN data
    /\ call.b \in DOMAIN data
    /\ Len(call.res.list) = 2
    /\ Cardinality(DOMAIN data) = 3

\* the last call had an empty key (put, get, delete) or an empty bound (scan)
EmptyKeyCall(c) ==
    \/ c.op \in {"put", "get", "delete"} /\ c.a = <<>>
    \/ c.op = "scan" /\ (c.a = <<>> \/ c.b = <<>>)

\* C3: put, get, delete with an empty key and scan with an empty start or end
\* return InvalidKey and leave the store (map and file) as it was.
C3_EmptyKeyRejected ==
    [][(call' # call /\ EmptyKeyCall(call')) =>
          (call'.res = Err("InvalidKey") /\ data' = data /\ disk' = disk)]_vars

\* an empty-key put was rejected on a store that holds entries
C3_Witness ==
    /\ call.op = "put"
    /\ call.a = <<>>
    /\ call.res = Err("InvalidKey")
    /\ data # EmptyMap

-----------------------------------------------------------------------------
(* Key codec (key.rs) *)

PREFIX_MONTHLY == 77        \* b'M'
PREFIX_TOURNAMENT == 84     \* b'T'
SEPARATOR == 0              \* 0x00

RECURSIVE DecDigits(_)
\* Display of an unsigned integer: its decimal digits, no padding
DecDigits(n) ==
    IF n < 10 THEN <<48 + n>> ELSE DecDigits(n \div 10) \o <<48 + (n % 10)>>

\* the width-with-0-flag of a format spec: pad with '0' on the left up to width w
ZeroPad(digits, w) ==
    IF Len(digits) >= w THEN digits
    ELSE [i \in 1..(w - Len(digits)) |-> 48] \o digits

\* a u64 is four 16-bit limbs, most significant first
U64Zero == <<0, 0, 0, 0>>
U64Div16(t) ==
    << t[1] \div 16,
       ((t[1] % 16) * 4096) + (t[2] \div 16),
       ((t[2] % 16) * 4096) + (t[3] \div 16),
       ((t[3] % 16) * 4096) + (t[4] \div 16) >>
U64Mod16(t) == t[4] % 16

\* one lower-case hex digit
LowerHexChar(d) == IF d < 10 THEN 48 + d ELSE 87 + d

RECURSIVE HexDigits(_)
\* LowerHex of a u64: its hex digits, no padding
HexDigits(t) ==
    IF U64Div16(t) = U64Zero THEN <<LowerHexChar(U64Mod16(t))>>
    ELSE HexDigits(U64Div16(t)) \o <<LowerHexChar(U64Mod16(t))>>

\* mutant: "{:06}" written as "{}" for the year-month of the key
monthly_key_unpadded(year_month, tournament_id) ==
    <<PREFIX_MONTHLY>> \o DecDigits(year_month) \o <<SEPARATOR>> \o tournament_id

monthly_key(year_month, tournament_id) ==
    <<PREFIX_MONTHLY>> \o ZeroPad(DecDigits(year_month), 6) \o <<SEPARATOR>> \o tournament_id

\* mutant: "{:016x}" written as "{:x}"
tournament_key_unpadded(tournament_id, timestamp) ==
    <<PREFIX_TOURNAMENT>> \o tournament_id \o <<SEPARATOR>> \o HexDigits(timestamp)

tournament_key(tournament_id, timestamp) ==
    <<PREFIX_TOURNAMENT>> \o tournament_id \o <<SEPARATOR>>
        \o ZeroPad(HexDigits(timestamp), 16)

\* year_month stays far below u32::MAX here, so year_month + 1 does not overflow
monthly_scan_range(year_month) ==
    LET start == <<PREFIX_MONTHLY>> \o ZeroPad(DecDigits(year_month), 6)
        end == <<PREFIX_MONTHLY>> \o ZeroPad(DecDigits(year_month + 1), 6)
    IN  <<start, end>>

tournament_scan_range(tournament_id) ==
    LET start == <<PREFIX_TOURNAMENT>> \o tournament_id \o <<SEPARATOR>>
        end == <<PREFIX_TOURNAMENT>> \o tournament_id \o <<SEPARATOR + 1>>
    IN  <<start, end>>

\* char::to_ascii_lowercase
to_ascii_lowercase(c) == IF c \in 65..90 THEN c + 32 ELSE c

RECURSIVE AsciiFilter(_)
\* .chars().filter_map(..).collect(): letters and digits lower-cased, ' ' to '_'
AsciiFilter(name) ==
    IF name = <<>> THEN <<>>
    ELSE LET c == Head(name)
             kept == IF c \in 97..122 \/ c \in 65..90 \/ c \in 48..57
                     THEN <<to_ascii_lowercase(c)>>
                     ELSE IF c = 32 THEN <<95>> ELSE <<>>
         IN  kept \o AsciiFilter(Tail(name))

\* bytes of one char in UTF-8
Utf8CharLen(c) == IF c < 128 THEN 1 ELSE IF c < 2048 THEN 2 ELSE IF c < 65536 THEN 3 ELSE 4

RECURSIVE Utf8Len(_)
\* str::len(): the length in bytes
Utf8Len(name) == IF name = <<>> THEN 0 ELSE Utf8CharLen(Head(name)) + Utf8Len(Tail(name))

RECURSIVE CollapseLoop(_, _, _)
\* the loop over combined.chars(): result and prev_underscore are its state
CollapseLoop(chars, result, prev_underscore) ==
    IF chars = <<>> THEN result
    ELSE LET c == Head(chars)
         IN  IF c = 95
             THEN CollapseLoop(Tail(chars),
                      IF ~prev_underscore /\ result # <<>> THEN Append(result, c) ELSE result,
                      TRUE)
             ELSE CollapseLoop(Tail(chars), Append(result, c), FALSE)

RECURSIVE TrimStart(_)
TrimStart(str) == IF str # <<>> /\ Head(str) = 95 THEN TrimStart(Tail(str)) ELSE str

RECURSIVE TrimEnd(_)
TrimEnd(str) ==
    IF str # <<>> /\ str[Len(str)] = 95 THEN TrimEnd(SubSeq(str, 1, Len(str) - 1)) ELSE str

\* str::trim_matches('_')
trim_matches(str) == TrimEnd(TrimStart(str))

\* mutant: the fallback number is the count of chars, not of bytes
generate_tournament_id_charcount(venue_name, event_name) ==
    LET venue_ascii == AsciiFilter(venue_name)
        event_ascii == AsciiFilter(event_name)
        venue_part == IF Len(venue_ascii) > 2 THEN venue_ascii
                      ELSE <<118, 101, 110, 117, 101, 95>> \o DecDigits(Len(venue_name))
        event_part == IF Len(event_ascii) > 2 THEN event_ascii
                      ELSE <<101, 118, 101, 110, 116, 95>> \o DecDigits(Len(event_name))
        combined == venue_part \o <<95>> \o event_part
    IN  trim_matches(CollapseLoop(combined, <<>>, FALSE))

generate_tournament_id(venue_name, event_name) ==
    LET venue_ascii == AsciiFilter(venue_name)
        event_ascii == AsciiFilter(event_name)
        \* "venue_" / "event_" followed by the byte length
        venue_part == IF Len(venue_ascii) > 2 THEN venue_ascii
                      ELSE <<118, 101, 110, 117, 101, 95>> \o DecDigits(Utf8Len(venue_name))
        event_part == IF Len(event_ascii) > 2 THEN event_ascii
                      ELSE <<101, 118, 101, 110, 116, 95>> \o DecDigits(Utf8Len(event_name))
        combined == venue_part \o <<95>> \o event_part
    IN  trim_matches(CollapseLoop(combined, <<>>, FALSE))

-----------------------------------------------------------------------------
(* The key codec applied to arguments drawn from bounded sets *)

\* all strings over the alphabet A of length 0..n
StringsUpTo(A, n) == UNION {[1..k -> A] : k \in 0..n}

Input(fn, n1, n2, s1, s2, t1, t2) ==
    [fn |-> fn, n1 |-> n1, n2 |-> n2, s1 |-> s1, s2 |-> s2, t1 |-> t1, t2 |-> t2]
Output(r1, r2, r3) == [done |-> TRUE, r1 |-> r1, r2 |-> r2, r3 |-> r3]

\* year-months year * 100 + month of 6 digits or fewer
KeyYears == {0, 999, 2025, 2026, 9999}
YearMonths == {y * 100 + mo : y \in KeyYears, mo \in 1..12}

\* group ids: "", "1", "\x01", "a"
KeyGroupIds == {<<>>, <<49>>, <<1>>, <<97>>}

\* u64 timestamps: 0, 9, 10, 16, 255, 256, 65535, 65536, 1694524800000,
\* 1694524800001, 2^63, 2^64 - 1
Timestamps ==
    { <<0, 0, 0, 0>>, <<0, 0, 0, 9>>, <<0, 0, 0, 10>>, <<0, 0, 0, 16>>, <<0, 0, 0, 255>>,
      <<0, 0, 0, 256>>, <<0, 0, 0, 65535>>, <<0, 0, 1, 0>>, <<0, 394, 35212, 31744>>,
      <<0, 394, 35212, 31745>>, <<32768, 0, 0, 0>>, <<65535, 65535, 65535, 65535>> }

\* every name over 'B', ' ' and the 3-byte char U+30FB, and some names with a
\* digit, a lower-case letter, '_', '-', a 2-byte char (U+00E9) and a 4-byte
\* char (U+1F6A4): "7", "_", "_B_", "b7 ", "a-7", "\u{e9}", "\u{1f6a4}7"
NameAlphabet == {66, 32, 12539}
ExtraNames ==
    { <<55>>, <<95>>, <<95, 66, 95>>, <<98, 55, 32>>, <<97, 45, 55>>, <<233>>,
      <<128676, 55>> }
Names == StringsUpTo(NameAlphabet, MaxNameLen) \cup ExtraNames

\* "Tokyo", "Bay Cup 2025"
Name_Tokyo == <<84, 111, 107, 121, 111>>
Name_BayCup2025 == <<66, 97, 121, 32, 67, 117, 112, 32, 50, 48, 50, 53>>
\* the venue and event names of test_generate_tournament_id: 3 and 12 chars of 3 bytes
Name_Heiwajima == <<24179, 21644, 23798>>
Name_TokyoBayCupKana ==
    <<12488, 12540, 12461, 12519, 12540, 12539, 12505, 12452, 12539, 12459, 12483, 12503>>

NamePairs ==
    (Names \X Names)
        \cup {<<Name_Tokyo, Name_BayCup2025>>, <<Name_Heiwajima, Name_TokyoBayCupKana>>}

KeyInputs ==
    {Input("monthly_scan_range", y1, y2, g, <<>>, <<>>, <<>>) :
        y1 \in YearMonths, y2 \in YearMonths, g \in KeyGroupIds}
    \cup {Input("tournament_key", 0, 0, g, <<>>, t1, t2) :
        g \in KeyGroupIds, t1 \in Timestamps, t2 \in Timestamps}
    \cup {Input("generate_tournament_id", 0, 0, p[1], p[2], <<>>, <<>>) : p \in NamePairs}

KeyInit ==
    /\ kin \in KeyInputs
    /\ kout = NoOutput
    /\ backend = "MemoryStore"
    /\ data = EmptyMap
    /\ disk = NoFile
    /\ call = NoCall
    /\ lastPut = NeverPut
    /\ ecall = NoEngineCall
    /\ lastRace = NoRace

\* monthly_scan_range(n1), and monthly_key(n2, s1) to set against the range
Call_monthly_scan_range ==
    /\ kin.fn = "monthly_scan_range"
    /\ ~kout.done
    /\ LET range == monthly_scan_range(kin.n1)
       IN  kout' = Output(range[1], range[2], monthly_key(kin.n2, kin.s1))
    /\ UNCHANGED <<kin, backend, data, disk, storeVars, engineVars>>

\* tournament_key(s1, t1) and tournament_key(s1, t2)
Call_tournament_key ==
    /\ kin.fn = "tournament_key"
    /\ ~kout.done
    /\ kout' = Output(tournament_key(kin.s1, kin.t1), tournament_key(kin.s1, kin.t2), <<>>)
    /\ UNCHANGED <<kin, backend, data, disk, storeVars, engineVars>>

\* generate_tournament_id(s1, s2)
Call_generate_tournament_id ==
    /\ kin.fn = "generate_tournament_id"
    /\ ~kout.done
    /\ kout' = Output(generate_tournament_id(kin.s1, kin.s2), <<>>, <<>>)
    /\ UNCHANGED <<kin, backend, data, disk, storeVars, engineVars>>

KeyNext ==
    \/ Call_monthly_scan_range
    \/ Call_tournament_key
    \/ Call_generate_tournament_id

SpecKey == KeyInit /\ [][KeyNext]_vars

-----------------------------------------------------------------------------
(* Claims about the key codec *)

Pow10(k) == CASE k = 0 -> 1 [] k = 1 -> 10 [] k = 2 -> 100 [] k = 3 -> 1000
              [] k = 4 -> 10000 [] k = 5 -> 100000

\* the 6 decimal digits of n < 10^6, leading zeros included
SixDigits(n) == [i \in 1..6 |-> 48 + ((n \div Pow10(6 - i)) % 10)]

\* key lies in the half-open range [lo, hi)
KeyInRange(key, lo, hi) == LexLeq(lo, key) /\ ~LexLeq(hi, key)

\* C4: for a 6-digit year-month Y with month 1..12, monthly_scan_range(Y) is
\* ("M" + 6-digit Y, "M" + 6-digit (Y+1)), and monthly_key(Y', g) of any such
\* year-month Y' and any group id g lies in that half-open range iff Y' = Y; for
\* December the bound M<YYYY13> keeps every December key in and January out.
C4_MonthlyRange ==
    (kin.fn = "monthly_scan_range" /\ kout.done) =>
        /\ kout.r1 = <<77>> \o SixDigits(kin.n1)
        /\ kout.r2 = <<77>> \o SixDigits(kin.n1 + 1)
        /\ KeyInRange(kout.r3, kout.r1, kout.r2) <=> (kin.n2 = kin.n1)

\* the range of 202512 was set against a key of 202601
C4_Witness ==
    /\ kin.fn = "monthly_scan_range"
    /\ kout.done
    /\ kin.n1 = 202512
    /\ kin.n2 = 202601
    /\ kout.r2 = <<77, 50, 48, 50, 53, 49, 51>>
    /\ ~KeyInRange(kout.r3, kout.r1, kout.r2)

\* the chars the derivation keeps: ASCII letters, digits and the space
IsKeptChar(c) == c \in 97..122 \/ c \in 65..90 \/ c \in 48..57 \/ c = 32

\* the elements of str at the indices in I, in order
AtIndices(str, I) ==
    LET f[k \in 0..Len(str)] ==
            IF k = 0 THEN <<>>
            ELSE IF k \in I THEN Append(f[k - 1], str[k]) ELSE f[k - 1]
    IN  f[Len(str)]

\* the retained fragment of a field: kept chars, letters lower-cased, ' ' as '_'
RefRetained(field) ==
    LET kept == SelectSeq(field, IsKeptChar)
    IN  [i \in 1..Len(kept) |->
            IF kept[i] = 32 THEN 95
            ELSE IF kept[i] \in 65..90 THEN kept[i] + 32 ELSE kept[i]]

\* the number of UTF-8 bytes of a field
RefByteLen(field) ==
    LET f[k \in 0..Len(field)] ==
            IF k = 0 THEN 0
            ELSE f[k - 1] + (CASE field[k] <= 127 -> 1
                               [] field[k] \in 128..2047 -> 2
                               [] field[k] \in 2048..65535 -> 3
                               [] OTHER -> 4)
    IN  f[Len(field)]

\* decimal digits of n < 1000 without leading zeros
RefDecimal(n) ==
    IF n < 10 THEN <<48 + n>>
    ELSE IF n < 100 THEN <<48 + (n \div 10), 48 + (n % 10)>>
    ELSE <<48 + (n \div 100), 48 + ((n \div 10) % 10), 48 + (n % 10)>>

\* the fragment of a field: the retained fragment, or <domain>_<byte length>
\* when that has 2 or fewer characters
RefFragment(field, domain) ==
    IF Len(RefRetained(field)) <= 2
    THEN domain \o <<95>> \o RefDecimal(RefByteLen(field))
    ELSE RefRetained(field)

\* runs of '_' collapsed to one '_'
RefCollapse(str) ==
    AtIndices(str, {i \in 1..Len(str) : ~(str[i] = 95 /\ i > 1 /\ str[i - 1] = 95)})

\* leading and trailing '_' removed
RefTrim(str) ==
    LET solid == {i \in 1..Len(str) : str[i] # 95}
    IN  IF solid = {} THEN <<>>
        ELSE SubSeq(str, CHOOSE i \in solid : \A j \in solid : i <= j,
                         CHOOSE i \in solid : \A j \in solid : i >= j)

\* the reference derivation of the group identifier
RefGroupId(venue, event) ==
    RefTrim(RefCollapse(RefFragment(venue, <<118, 101, 110, 117, 101>>)
                        \o <<95>> \o RefFragment(event, <<101, 118, 101, 110, 116>>)))

U64Less(t1, t2) ==
    \E i \in 1..4 : t1[i] < t2[i] /\ \A j \in 1..(i - 1) : t1[j] = t2[j]

\* the 16 hex digits of a u64, most significant first, as numbers 0..15
Nibbles(t) == [i \in 1..16 |->
    LET limb == t[((i - 1) \div 4) + 1]
        pos == (i - 1) % 4
    IN  (limb \div (CASE pos = 0 -> 4096 [] pos = 1 -> 256 [] pos = 2 -> 16 [] OTHER -> 1)) % 16]

\* "0123456789abcdef"
HexAlphabet == <<48, 49, 50, 51, 52, 53, 54, 55, 56, 57, 97, 98, 99, 100, 101, 102>>

\* C9: tournament_key(g, t) is "T" + g + NUL + exactly 16 lower-case hex digits
\* of t, and tournament_key(g, t1) < tournament_key(g, t2) lexicographically iff
\* t1 < t2 numerically, t = 0 and t = 2^64 - 1 included.
C9_TimestampOrder ==
    (kin.fn = "tournament_key" /\ kout.done) =>
        /\ kout.r1 = <<84>> \o kin.s1 \o <<0>>
                        \o [i \in 1..16 |-> HexAlphabet[Nibbles(kin.t1)[i] + 1]]
        /\ Len(kout.r1) = Len(kin.s1) + 18
        /\ (LexLeq(kout.r1, kout.r2) /\ kout.r1 # kout.r2) <=> U64Less(kin.t1, kin.t2)

\* the keys of 0 and of 2^64 - 1 under one group were compared
C9_Witness ==
    /\ kin.fn = "tournament_key"
    /\ kout.done
    /\ kin.t1 = <<0, 0, 0, 0>>
    /\ kin.t2 = <<65535, 65535, 65535, 65535>>
    /\ kin.s1 = <<97>>
    /\ LexLeq(kout.r1, kout.r2)

-----------------------------------------------------------------------------
(* Value codec (value.rs): bincode bytes wrapped in Base64 *)

\* RaceEvent
RaceEvent(venue_id, venue_name, event_name, grade, start_date, duration_days) ==
    [venue_id |-> venue_id, venue_name |-> venue_name, event_name |-> event_name,
     grade |-> grade, start_date |-> start_date, duration_days |-> duration_days]

\* Result<T> of the codec: Ok(val) or Err(SerializationError)
Decoded(val) == [ok |-> TRUE, val |-> <<val>>]
DecodeError == [ok |-> FALSE, val |-> <<>>]

\* the UTF-8 bytes of one char
Utf8Char(c) ==
    IF c < 128 THEN <<c>>
    ELSE IF c < 2048 THEN <<192 + (c \div 64), 128 + (c % 64)>>
    ELSE IF c < 65536 THEN <<224 + (c \div 4096), 128 + ((c \div 64) % 64), 128 + (c % 64)>>
    ELSE <<240 + (c \div 262144), 128 + ((c \div 4096) % 64), 128 + ((c \div 64) % 64),
           128 + (c % 64)>>

RECURSIVE Utf8Encode(_)
\* the bytes of a String
Utf8Encode(str) == IF str = <<>> THEN <<>> ELSE Utf8Char(Head(str)) \o Utf8Encode(Tail(str))

\* a UTF-8 continuation byte
IsCont(b) == b \in 128..191

RECURSIVE Utf8DecodeFrom(_, _, _)
\* String::from_utf8 from position pos on: the chars, or an error
Utf8DecodeFrom(bytes, pos, acc) ==
    IF pos > Len(bytes) THEN Decoded(acc)
    ELSE LET b == bytes[pos]
             left == Len(bytes) - pos
         IN  IF b < 128 THEN Utf8DecodeFrom(bytes, pos + 1, Append(acc, b))
             ELSE IF b \in 194..223 /\ left >= 1 /\ IsCont(bytes[pos + 1])
             THEN Utf8DecodeFrom(bytes, pos + 2,
                      Append(acc, ((b - 192) * 64) + (bytes[pos + 1] - 128)))
             ELSE IF b \in 224..239 /\ left >= 2 /\ IsCont(bytes[pos + 1])
                     /\ IsCont(bytes[pos + 2])
             THEN LET c == ((b - 224) * 4096) + ((bytes[pos + 1] - 128) * 64)
                               + (bytes[pos + 2] - 128)
                  IN  IF c < 2048 \/ c \in 55296..57343 THEN DecodeError
                      ELSE Utf8DecodeFrom(bytes, pos + 3, Append(acc, c))
             ELSE IF b \in 240..244 /\ left >= 3 /\ IsCont(bytes[pos + 1])
                     /\ IsCont(bytes[pos + 2]) /\ IsCont(bytes[pos + 3])
             THEN LET c == ((b - 240) * 262144) + ((bytes[pos + 1] - 128) * 4096)
                               + ((bytes[pos + 2] - 128) * 64) + (bytes[pos + 3] - 128)
                  IN  IF c < 65536 \/ c > 1114111 THEN DecodeError
                      ELSE Utf8DecodeFrom(bytes, pos + 4, Append(acc, c))
             ELSE DecodeError

\* bincode of a u32: 4 bytes, little endian
BincodeU32(n) == <<n % 256, (n \div 256) % 256, (n \div 65536) % 256, n \div 16777216>>

\* bincode of a length (u64): 8 bytes, little endian; lengths stay below 2^31
BincodeLen(n) == BincodeU32(n) \o <<0, 0, 0, 0>>

\* bincode of a String: its byte length, then its bytes
BincodeString(str) == LET bytes == Utf8Encode(str) IN BincodeLen(Len(bytes)) \o bytes

\* bincode::serialize of a RaceEvent: the fields in declaration order
BincodeRaceEvent(e) ==
    BincodeU32(e.venue_id) \o BincodeString(e.venue_name) \o BincodeString(e.event_name)
        \o BincodeString(e.grade) \o BincodeString(e.start_date)
        \o BincodeU32(e.duration_days)

\* reading a u32 at pos: the value and the next position, or an error
ReadU32(bytes, pos) ==
    IF pos + 3 > Len(bytes) THEN [ok |-> FALSE, val |-> 0, pos |-> pos]
    ELSE IF bytes[pos + 3] >= 128 THEN [ok |-> FALSE, val |-> 0, pos |-> pos]
    ELSE [ok |-> TRUE,
          val |-> bytes[pos] + (bytes[pos + 1] * 256) + (bytes[pos + 2] * 65536)
                    + (bytes[pos + 3] * 16777216),
          pos |-> pos + 4]

\* reading a String at pos: a u64 length, that many bytes, which must be UTF-8
ReadString(bytes, pos) ==
    LET lo == ReadU32(bytes, pos)
    IN  IF pos + 7 > Len(bytes) \/ ~lo.ok THEN [ok |-> FALSE, val |-> <<>>, pos |-> pos]
        ELSE IF \E i \in 4..7 : bytes[pos + i] # 0
        THEN [ok |-> FALSE, val |-> <<>>, pos |-> pos]
        ELSE IF pos + 7 + lo.val > Len(bytes) THEN [ok |-> FALSE, val |-> <<>>, pos |-> pos]
        ELSE LET str == Utf8DecodeFrom(SubSeq(bytes, pos + 8, pos + 7 + lo.val), 1, <<>>)
             IN  IF ~str.ok THEN [ok |-> FALSE, val |-> <<>>, pos |-> pos]
                 ELSE [ok |-> TRUE, val |-> str.val[1], pos |-> pos + 8 + lo.val]

\* bincode::deserialize::<RaceEvent>: bytes after the last field are ignored
UnBincodeRaceEvent(bytes) ==
    LET f1 == ReadU32(bytes, 1)
        f2 == ReadString(bytes, f1.pos)
        f3 == ReadString(bytes, f2.pos)
        f4 == ReadString(bytes, f3.pos)
        f5 == ReadString(bytes, f4.pos)
        f6 == ReadU32(bytes, f5.pos)
    IN  IF f1.ok /\ f2.ok /\ f3.ok /\ f4.ok /\ f5.ok /\ f6.ok
        THEN Decoded(RaceEvent(f1.val, f2.val, f3.val, f4.val, f5.val, f6.val))
        ELSE DecodeError

\* bincode::deserialize::<String>
UnBincodeString(bytes) ==
    LET f1 == ReadString(bytes, 1)
    IN  IF f1.ok THEN Decoded(f1.val) ELSE DecodeError

\* the Base64 STANDARD alphabet: A-Z a-z 0-9 + /
Base64Char(n) ==
    IF n < 26 THEN 65 + n
    ELSE IF n < 52 THEN 71 + n
    ELSE IF n < 62 THEN n - 4
    ELSE IF n = 62 THEN 43 ELSE 47

\* the 6-bit value of a Base64 char, -1 for a char outside the alphabet
Base64Value(c) ==
    IF c \in 65..90 THEN c - 65
    ELSE IF c \in 97..122 THEN c - 71
    ELSE IF c \in 48..57 THEN c + 4
    ELSE IF c = 43 THEN 62
    ELSE IF c = 47 THEN 63 ELSE -1

\* general_purpose::STANDARD.encode: 3 bytes to 4 chars, '=' padding
Base64Encode(bytes) ==
    LET n == Len(bytes)
        groups == (n + 2) \div 3
        byte(i) == IF i <= n THEN bytes[i] ELSE 0
        sextet(g, k) ==
            LET b1 == byte((3 * g) - 2)
                b2 == byte((3 * g) - 1)
                b3 == byte(3 * g)
            IN  CASE k = 1 -> b1 \div 4
                  [] k = 2 -> ((b1 % 4) * 16) + (b2 \div 16)
                  [] k = 3 -> ((b2 % 16) * 4) + (b3 \div 64)
                  [] OTHER -> b3 % 64
    IN  [i \in 1..(4 * groups) |->
            LET g == ((i - 1) \div 4) + 1
                k == ((i - 1) % 4) + 1
            IN  IF (k = 3 /\ (3 * g) - 1 > n) \/ (k = 4 /\ 3 * g > n) THEN 61
                ELSE Base64Char(sextet(g, k))]

\* general_purpose::STANDARD.decode: canonical padding required, chars outside
\* the alphabet and non-zero trailing bits rejected
Base64Decode(text) ==
    LET n == Len(text)
        pad == IF n >= 2 /\ text[n] = 61 /\ text[n - 1] = 61 THEN 2
               ELSE IF n >= 1 /\ text[n] = 61 THEN 1 ELSE 0
        v(i) == Base64Value(text[i])
        nbytes == ((n \div 4) * 3) - pad
        lastv == IF n > pad THEN v(n - pad) ELSE 0
    IN  IF n % 4 # 0 THEN DecodeError
        ELSE IF \E i \in 1..(n - pad) : v(i) = -1 THEN DecodeError
        ELSE IF (pad = 2 /\ lastv % 16 # 0) \/ (pad = 1 /\ lastv % 4 # 0) THEN DecodeError
        ELSE Decoded([j \in 1..nbytes |->
                LET g == (j - 1) \div 3
                    k == (j - 1) % 3
                    c1 == v((4 * g) + 1)
                    c2 == v((4 * g) + 2)
                    c3 == v((4 * g) + 3)
                    c4 == v((4 * g) + 4)
                IN  CASE k = 0 -> (c1 * 4) + (c2 \div 16)
                      [] k = 1 -> ((c2 % 16) * 16) + (c3 \div 4)
                      [] OTHER -> ((c3 % 4) * 64) + c4])

\* serialize_to_string::<RaceEvent>
serialize_to_string(event) == Base64Encode(BincodeRaceEvent(event))

\* deserialize_from_string::<RaceEvent>
deserialize_from_string(text) ==
    LET binary == Base64Decode(text)
    IN  IF ~binary.ok THEN DecodeError ELSE UnBincodeRaceEvent(binary.val[1])

\* serialize_to_string::<String>
serialize_to_string_str(payload) == Base64Encode(BincodeString(payload))

\* deserialize_from_string::<String>
deserialize_from_string_str(text) ==
    LET binary == Base64Decode(text)
    IN  IF ~binary.ok THEN DecodeError ELSE UnBincodeString(binary.val[1])

-----------------------------------------------------------------------------
(* Calendar dates (chrono::NaiveDate) *)

NaiveDate(y, mo, d) == [y |-> y, m |-> mo, d |-> d]

IsLeapYear(y) == (y % 4 = 0 /\ y % 100 # 0) \/ y % 400 = 0

DaysInMonth(y, mo) ==
    IF mo = 2 THEN (IF IsLeapYear(y) THEN 29 ELSE 28)
    ELSE IF mo \in {4, 6, 9, 11} THEN 30 ELSE 31

\* NaiveDate::from_ymd_opt: None (<<>>) for a date that does not exist or a
\* year beyond the largest year of NaiveDate, 262143
from_ymd_opt(y, mo, d) ==
    IF y \in 0..262143 /\ mo \in 1..12 /\ d \in 1..DaysInMonth(y, mo)
    THEN <<NaiveDate(y, mo, d)>> ELSE <<>>

\* date comparison: current_date <= end_date
DateLeq(a, b) ==
    \/ a.y < b.y
    \/ a.y = b.y /\ a.m < b.m
    \/ a.y = b.y /\ a.m = b.m /\ a.d <= b.d

RECURSIVE AddDays(_, _)
\* NaiveDate + Duration::days(n) where the sum is inside the range of NaiveDate
AddDays(date, n) ==
    IF n = 0 THEN date
    ELSE IF n > 0
    THEN IF date.d + n <= DaysInMonth(date.y, date.m) THEN [date EXCEPT !.d = date.d + n]
         ELSE AddDays(IF date.m = 12 THEN NaiveDate(date.y + 1, 1, 1)
                      ELSE NaiveDate(date.y, date.m + 1, 1),
                      n - (DaysInMonth(date.y, date.m) - date.d + 1))
    ELSE IF date.d + n >= 1 THEN [date EXCEPT !.d = date.d + n]
         ELSE AddDays(IF date.m = 1 THEN NaiveDate(date.y - 1, 12, 31)
                      ELSE NaiveDate(date.y, date.m - 1, DaysInMonth(date.y, date.m - 1)),
                      n + date.d)

\* NaiveDate::MAX
NaiveDate_MAX == NaiveDate(262143, 12, 31)

RECURSIVE DaysBeforeMonth(_, _)
\* the days of the year y before its month mo
DaysBeforeMonth(y, mo) ==
    IF mo = 1 THEN 0 ELSE DaysBeforeMonth(y, mo - 1) + DaysInMonth(y, mo - 1)

\* NaiveDate::num_days_from_ce: 0001-01-01 is day 1
num_days_from_ce(date) ==
    LET y1 == date.y - 1
    IN  (y1 * 365) + (y1 \div 4) - (y1 \div 100) + (y1 \div 400)
            + DaysBeforeMonth(date.y, date.m) + date.d

\* NaiveDate::checked_add_signed(Duration::days(n)) is None: the sum lies after
\* NaiveDate::MAX (the dates here are of years >= 0 and n >= -1, so no sum lies
\* before NaiveDate::MIN)
AddOverflows(date, n) == n > num_days_from_ce(NaiveDate_MAX) - num_days_from_ce(date)

\* a panic: the call unwinds and returns nothing to its caller
Panic(msg) == [tag |-> "Panic", err |-> msg, opt |-> <<>>, list |-> <<>>]

IsDigit(c) == c \in 48..57

RECURSIVE DigitsValue(_)
\* the number written by a string of decimal digits
DigitsValue(digits) ==
    IF digits = <<>> THEN 0
    ELSE (DigitsValue(SubSeq(digits, 1, Len(digits) - 1)) * 10) + (digits[Len(digits)] - 48)

\* the end of the run of at most maxw digits that starts at pos (pos - 1 if none)
DigitRunEnd(str, pos, maxw) ==
    LET ends == {e \in pos..(pos + maxw - 1) :
                    e <= Len(str) /\ \A i \in pos..e : IsDigit(str[i])}
    IN  IF ends = {} THEN pos - 1 ELSE CHOOSE e \in ends : \A x \in ends : x <= e

\* NaiveDate::parse_from_str(s, "%Y-%m-%d") for unsigned years: up to 4 digits,
\* '-', up to 2 digits, '-', up to 2 digits, nothing after, and the date exists
parse_from_str(str) ==
    LET ye == DigitRunEnd(str, 1, 4)
        me == DigitRunEnd(str, ye + 2, 2)
        de == DigitRunEnd(str, me + 2, 2)
    IN  IF ye < 1 \/ ye + 1 > Len(str) \/ str[ye + 1] # 45 THEN <<>>
        ELSE IF me < ye + 2 \/ me + 1 > Len(str) \/ str[me + 1] # 45 THEN <<>>
        ELSE IF de < me + 2 \/ de # Len(str) THEN <<>>
        ELSE from_ymd_opt(DigitsValue(SubSeq(str, 1, ye)),
                          DigitsValue(SubSeq(str, ye + 2, me)),
                          DigitsValue(SubSeq(str, me + 2, de)))

-----------------------------------------------------------------------------
(* BoatRaceEngine (engine.rs) over a store K: KeyValueStore *)

\* Result<T> of an engine call: val is <<the value>> for Ok and <<>> for Err
EOk(val) == [tag |-> "Ok", err |-> "", val |-> <<val>>]
EErr(e) == [tag |-> "Err", err |-> e, val |-> <<>>]

MonthlySchedule(year_month, events) == [year_month |-> year_month, events |-> events]

\* self.store.put on the backend b; io is what the file system does to the save
Store_put(b, d, dsk, key, value, io) ==
    IF b = "MemoryStore"
    THEN LET r == MemoryStore_put(d, key, value)
         IN  [res |-> r.res, data |-> r.data, disk |-> dsk]
    ELSE FileStore_put(d, dsk, key, value, io)

\* self.store.get
Store_get(b, d, key) ==
    IF b = "MemoryStore" THEN MemoryStore_get(d, key) ELSE FileStore_get(d, key)

\* self.store.scan
Store_scan(b, d, order, start, end) ==
    IF b = "MemoryStore" THEN MemoryStore_scan(d, order, start, end)
    ELSE FileStore_scan(d, order, start, end)

\* self.store.keys
Store_keys(b, d, order) ==
    IF b = "MemoryStore" THEN MemoryStore_keys(d, order) ELSE FileStore_keys(d, order)

\* str::split('-'): the pieces between the hyphens
SplitHyphen(str) ==
    LET f[k \in 0..Len(str)] ==
            IF k = 0 THEN <<(<<>>)>>
            ELSE IF str[k] = 45 THEN Append(f[k - 1], <<>>)
            ELSE [f[k - 1] EXCEPT ![Len(f[k - 1])] = Append(@, str[k])]
    IN  f[Len(str)]

\* str::parse::<u32>: an optional '+' and at least one digit; the numbers here
\* have at most 9 digits and fit a u32
parse_u32(str) ==
    LET digits == IF str # <<>> /\ str[1] = 43 THEN Tail(str) ELSE str
    IN  IF digits = <<>> \/ Len(digits) > 9 \/ \E i \in 1..Len(digits) : ~IsDigit(digits[i])
        THEN <<>> ELSE <<DigitsValue(digits)>>

\* mutant: the month part taken without the test 1 <= month <= 12
parse_year_month_anyMonth(year_month) ==
    LET parts == SplitHyphen(year_month)
    IN  IF Len(parts) # 2 THEN EErr("InvalidValue")
        ELSE LET year == parse_u32(parts[1])
                 month == parse_u32(parts[2])
             IN  IF year = <<>> THEN EErr("InvalidValue")
                 ELSE IF month = <<>> THEN EErr("InvalidValue")
                 ELSE EOk((year[1] * 100) + month[1])

\* parse_year_month: "2025-09" -> 202509
parse_year_month(year_month) ==
    LET parts == SplitHyphen(year_month)
    IN  IF Len(parts) # 2 THEN EErr("InvalidValue")
        ELSE LET year == parse_u32(parts[1])
                 month == parse_u32(parts[2])
             IN  IF year = <<>> THEN EErr("InvalidValue")
                 ELSE IF month = <<>> THEN EErr("InvalidValue")
                 ELSE IF month[1] < 1 \/ month[1] > 12 THEN EErr("InvalidValue")
                 ELSE EOk((year[1] * 100) + month[1])

\* format_year_month: 202509 -> "2025-09"
format_year_month(year_month) ==
    LET year == year_month \div 100
        month == year_month % 100
    IN  ZeroPad(DecDigits(year), 4) \o <<45>> \o ZeroPad(DecDigits(month), 2)

RECURSIVE PutEventsLoop(_, _, _, _, _, _, _)
\* put_monthly_schedule: for event in &schedule.events; i counts the puts and
\* ios[i] is what the file system does to the i-th
PutEventsLoop(b, d, dsk, year_month, events, i, ios) ==
    IF events = <<>> THEN [res |-> OkUnit, data |-> d, disk |-> dsk]
    ELSE LET event == Head(events)
             tournament_id == generate_tournament_id(event.venue_name, event.event_name)
             key == monthly_key(year_month, tournament_id)
             value == serialize_to_string(event)
             r == Store_put(b, d, dsk, key, value, ios[i])
         IN  IF r.res.tag = "Err" THEN r
             ELSE PutEventsLoop(b, r.data, r.disk, year_month, Tail(events), i + 1, ios)

\* mutant: the schedule replaces the contents of the store
put_monthly_schedule_replacing(b, d, dsk, schedule, ios) ==
    LET year_month == parse_year_month(schedule.year_month)
    IN  IF year_month.tag = "Err" THEN [res |-> Err("InvalidValue"), data |-> d, disk |-> dsk]
        ELSE PutEventsLoop(b, EmptyMap, dsk, year_month.val[1], schedule.events, 1, ios)

put_monthly_schedule(b, d, dsk, schedule, ios) ==
    LET year_month == parse_year_month(schedule.year_month)
    IN  IF year_month.tag = "Err" THEN [res |-> Err("InvalidValue"), data |-> d, disk |-> dsk]
        ELSE PutEventsLoop(b, d, dsk, year_month.val[1], schedule.events, 1, ios)

RECURSIVE DecodeEvents(_)
\* for (_, value) in results: deserialize each value, stop at the first error
DecodeEvents(results) ==
    IF results = <<>> THEN Decoded(<<>>)
    ELSE LET event == deserialize_from_string(Head(results)[2])
             rest == DecodeEvents(Tail(results))
         IN  IF ~event.ok THEN DecodeError
             ELSE IF ~rest.ok THEN DecodeError
             ELSE Decoded(<<event.val[1]>> \o rest.val[1])

RECURSIVE InsertByStartDate(_, _)
\* e placed after every element whose start_date is not greater than its own
InsertByStartDate(sorted, e) ==
    IF sorted = <<>> THEN <<e>>
    ELSE IF StrLess(e.start_date, Head(sorted).start_date) THEN <<e>> \o sorted
    ELSE <<Head(sorted)>> \o InsertByStartDate(Tail(sorted), e)

\* the events left in the order the scan produced them
SortByStartDate_unsorted(events) == events

RECURSIVE SortByStartDate(_)
\* events.sort_by(|a, b| a.start_date.cmp(&b.start_date)): a stable sort
SortByStartDate(events) ==
    IF events = <<>> THEN <<>>
    ELSE InsertByStartDate(SortByStartDate(SubSeq(events, 1, Len(events) - 1)),
                           events[Len(events)])

get_monthly_schedule(b, d, order, year_month) ==
    LET range == monthly_scan_range(year_month)
        results == Store_scan(b, d, order, range[1], range[2])
    IN  IF results.tag = "Err" THEN EErr(results.err)
        ELSE LET events == DecodeEvents(results.list)
             IN  IF ~events.ok THEN EErr("SerializationError")
                 ELSE EOk(MonthlySchedule(format_year_month(year_month),
                                          SortByStartDate(events.val[1])))

\* the record keyed by its tournament alone, under timestamp zero
put_race_data_noTimestamp(b, d, dsk, tournament_id, timestamp, payload, io) ==
    LET key == tournament_key(tournament_id, U64Zero)
        value == serialize_to_string_str(payload)
    IN  Store_put(b, d, dsk, key, value, io)

put_race_data(b, d, dsk, tournament_id, timestamp, payload, io) ==
    LET key == tournament_key(tournament_id, timestamp)
        value == serialize_to_string_str(payload)
    IN  Store_put(b, d, dsk, key, value, io)

RECURSIVE DecodeRaces(_)
\* for (_, value) in results: deserialize each value, stop at the first error
DecodeRaces(results) ==
    IF results = <<>> THEN Decoded(<<>>)
    ELSE LET race == deserialize_from_string_str(Head(results)[2])
             rest == DecodeRaces(Tail(results))
         IN  IF ~race.ok THEN DecodeError
             ELSE IF ~rest.ok THEN DecodeError
             ELSE Decoded(<<race.val[1]>> \o rest.val[1])

get_tournament_races(b, d, order, tournament_id) ==
    LET range == tournament_scan_range(tournament_id)
        results == Store_scan(b, d, order, range[1], range[2])
    IN  IF results.tag = "Err" THEN EErr(results.err)
        ELSE LET races == DecodeRaces(results.list)
             IN  IF ~races.ok THEN EErr("SerializationError") ELSE EOk(races.val[1])

get_race_data(b, d, tournament_id, timestamp) ==
    LET key == tournament_key(tournament_id, timestamp)
        got == Store_get(b, d, key)
    IN  IF got.tag = "Err" THEN EErr(got.err)
        ELSE IF got.opt = None THEN EErr("NotFound")
        ELSE LET race == deserialize_from_string_str(got.opt[1])
             IN  IF ~race.ok THEN EErr("SerializationError") ELSE EOk(race.val[1])

\* current_date.year() as u32 * 100 + current_date.month(), for years >= 0
YearMonthOf(date) == (date.y * 100) + date.m

RECURSIVE RegisterLoop(_, _, _, _, _, _, _, _)

\* mutant: the loop ends at the first month whose key the store already holds
RegisterLoop_stopAtExisting(b, d, dsk, tournament, current_date, end_date, i, ios) ==
    IF ~DateLeq(current_date, end_date) THEN [res |-> OkUnit, data |-> d, disk |-> dsk]
    ELSE LET year_month == YearMonthOf(current_date)
             tournament_id ==
                 generate_tournament_id(tournament.venue_name, tournament.event_name)
             key == monthly_key(year_month, tournament_id)
             value == serialize_to_string(tournament)
             r == Store_put(b, d, dsk, key, value, ios[i])
             next == IF current_date.m = 12
                     THEN from_ymd_opt(current_date.y + 1, 1, 1)
                     ELSE from_ymd_opt(current_date.y, current_date.m + 1, 1)
         IN  IF key \in DOMAIN d THEN [res |-> OkUnit, data |-> d, disk |-> dsk]
             ELSE IF r.res.tag = "Err" THEN r
             ELSE IF next = <<>>
             THEN [res |-> Err("InvalidValue"), data |-> r.data, disk |-> r.disk]
             ELSE IF YearMonthOf(next[1]) > YearMonthOf(end_date) THEN r
             ELSE RegisterLoop(b, r.data, r.disk, tournament, next[1], end_date, i + 1, ios)

\* register_tournament_to_months: while current_date <= end_date
RegisterLoop(b, d, dsk, tournament, current_date, end_date, i, ios) ==
    IF ~DateLeq(current_date, end_date) THEN [res |-> OkUnit, data |-> d, disk |-> dsk]
    ELSE LET year_month == YearMonthOf(current_date)
             tournament_id ==
                 generate_tournament_id(tournament.venue_name, tournament.event_name)
             key == monthly_key(year_month, tournament_id)
             value == serialize_to_string(tournament)
             r == Store_put(b, d, dsk, key, value, ios[i])
             next == IF current_date.m = 12
                     THEN from_ymd_opt(current_date.y + 1, 1, 1)
                     ELSE from_ymd_opt(current_date.y, current_date.m + 1, 1)
         IN  IF r.res.tag = "Err" THEN r
             ELSE IF next = <<>>
             THEN [res |-> Err("InvalidValue"), data |-> r.data, disk |-> r.disk]
             ELSE IF YearMonthOf(next[1]) > YearMonthOf(end_date) THEN r
             ELSE RegisterLoop(b, r.data, r.disk, tournament, next[1], end_date, i + 1, ios)

\* the tournament registered under the month of its start date alone
register_tournament_to_months_startMonthOnly(b, d, dsk, tournament, ios) ==
    LET start_date == parse_from_str(tournament.start_date)
    IN  IF start_date = <<>> THEN [res |-> Err("InvalidValue"), data |-> d, disk |-> dsk]
        ELSE RegisterLoop(b, d, dsk, tournament, start_date[1], start_date[1], 1, ios)

register_tournament_to_months(b, d, dsk, tournament, ios) ==
    LET start_date == parse_from_str(tournament.start_date)
    IN  IF start_date = <<>> THEN [res |-> Err("InvalidValue"), data |-> d, disk |-> dsk]
        ELSE IF AddOverflows(start_date[1], tournament.duration_days - 1)
        THEN [res |-> Panic("NaiveDate + Duration overflowed"), data |-> d, disk |-> dsk]
        ELSE LET end_date == AddDays(start_date[1], tournament.duration_days - 1)
             IN  RegisterLoop(b, d, dsk, tournament, start_date[1], end_date, 1, ios)

-----------------------------------------------------------------------------
(* The engine driven by a caller: the monthly view *)

ECalled(op, args, res) == [op |-> op, args |-> args, res |-> res]

\* Result<()> of an engine call, from the store's result
EUnit(res) == [tag |-> res.tag, err |-> res.err, val |-> <<>>]

\* "YYYY-MM-DD"
DateText(y, mo, d) ==
    ZeroPad(DecDigits(y), 4) \o <<45>> \o ZeroPad(DecDigits(mo), 2) \o <<45>>
        \o ZeroPad(DecDigits(d), 2)

\* "Tokyo" / "Bay Cup", G1, 2025-12-28, 8 days: runs into January 2026
Event_BayCup ==
    RaceEvent(1, <<84, 111, 107, 121, 111>>, <<66, 97, 121, 32, 67, 117, 112>>, <<71, 49>>,
              DateText(2025, 12, 28), 8)
\* a 3-char venue and a 5-char event name of 3-byte chars, G1, 3 days from the
\* same day 2025-12-28
Event_YearEnd ==
    RaceEvent(4, <<24179, 21644, 23798>>, <<24180, 26411, 24180, 22987, 26479>>, <<71, 49>>,
              DateText(2025, 12, 28), 3)
\* the same venue and another 5-char event name, SG, 2025-11-30, 40 days: runs
\* through December into January 2026
Event_NewYear ==
    RaceEvent(4, <<24179, 21644, 23798>>, <<26032, 26149, 29305, 21029, 26479>>, <<83, 71>>,
              DateText(2025, 11, 30), 40)
Events == {Event_BayCup, Event_YearEnd, Event_NewYear}

\* "2025-12", "2026-01"
ScheduleTags == {<<50, 48, 50, 53, 45, 49, 50>>, <<50, 48, 50, 54, 45, 48, 49>>}

\* the sequences of at most n distinct elements of S
DistinctSeqs(S, n) ==
    UNION {{q \in [1..k -> S] : \A i, j \in 1..k : i # j => q[i] # q[j]} : k \in 0..n}

Schedules ==
    {MonthlySchedule(tag, events) :
        tag \in ScheduleTags, events \in DistinctSeqs(Events, MaxSchedLen)}

\* the year-months read back
ReadMonths == {99912, 202511, 202512, 202601, 202602}

\* what the file system does to the puts of one engine call, by their number
AllOk == [i \in Nat |-> "ok"]
FailAt(k, io) == [i \in Nat |-> IF i = k THEN io ELSE "ok"]

\* a MemoryStore has no file; the first failing save of a FileStore ends the call
IoPlans(b) ==
    IF b = "MemoryStore" THEN {AllOk}
    ELSE {AllOk} \cup {FailAt(k, io) : k \in 1..(MaxSchedLen + 1), io \in SaveOutcomes \ {"ok"}}

\* the orders in which the map may yield the keys inside [start, end); the scan
\* loop skips the keys outside the range wherever the order places them
ScanOrders(d, start, end) ==
    LET inside == {k \in DOMAIN d : StrGeq(k, start) /\ StrLess(k, end)}
        n == Cardinality(inside)
    IN  {o \in [1..n -> inside] : \A i, j \in 1..n : i # j => o[i] # o[j]}

EngineInit ==
    /\ backend = "MemoryStore"
    /\ data = MemoryStore_new
    /\ disk = NoFile
    /\ ecall = NoEngineCall
    /\ lastRace = NoRace
    /\ call = NoCall
    /\ lastPut = NeverPut
    /\ kin = NoInput
    /\ kout = NoOutput

PutMonthlySchedule(schedule, ios) ==
    /\ LET r == put_monthly_schedule(backend, data, disk, schedule, ios)
       IN  /\ data' = r.data
           /\ disk' = r.disk
           /\ ecall' = ECalled("put_monthly_schedule", <<schedule>>, EUnit(r.res))
    /\ UNCHANGED <<backend, lastRace, storeVars, codecVars>>

GetMonthlySchedule(year_month, order) ==
    /\ ecall' = ECalled("get_monthly_schedule", <<year_month>>,
                        get_monthly_schedule(backend, data, order, year_month))
    /\ UNCHANGED <<backend, data, disk, lastRace, storeVars, codecVars>>

RegisterTournamentToMonths(tournament, ios) ==
    /\ LET r == register_tournament_to_months(backend, data, disk, tournament, ios)
       IN  /\ data' = r.data
           /\ disk' = r.disk
           /\ ecall' = ECalled("register_tournament_to_months", <<tournament>>, EUnit(r.res))
    /\ UNCHANGED <<backend, lastRace, storeVars, codecVars>>

EngineNext ==
    \/ \E schedule \in Schedules, ios \in IoPlans(backend) :
          PutMonthlySchedule(schedule, ios)
    \/ \E year_month \in ReadMonths :
          \E order \in ScanOrders(data, monthly_scan_range(year_month)[1],
                                  monthly_scan_range(year_month)[2]) :
              GetMonthlySchedule(year_month, order)
    \/ \E tournament \in Events, ios \in IoPlans(backend) :
          RegisterTournamentToMonths(tournament, ios)

SpecEngine == EngineInit /\ [][EngineNext]_vars

-----------------------------------------------------------------------------
(* The engine driven by a caller: the race records *)

RaceGroupIds == {<<97>>, <<98>>}

\* 9 and 16: ...0009 and ...0010 in hexadecimal
RaceTimestamps == {<<0, 0, 0, 9>>, <<0, 0, 0, 16>>}

\* "r1", "r2"
RacePayloads == {<<114, 49>>, <<114, 50>>}

\* lastRace[<<g, t>>]: the payload of the latest successful put_race_data(g, t, _)
NeverRaced == [gt \in RaceGroupIds \X RaceTimestamps |-> None]

RaceInit ==
    /\ backend = "MemoryStore"
    /\ data = MemoryStore_new
    /\ disk = NoFile
    /\ ecall = NoEngineCall
    /\ lastRace = NeverRaced
    /\ call = NoCall
    /\ lastPut = NeverPut
    /\ kin = NoInput
    /\ kout = NoOutput

PutRaceData(tournament_id, timestamp, payload, io) ==
    /\ LET r == put_race_data(backend, data, disk, tournament_id, timestamp, payload, io)
       IN  /\ data' = r.data
           /\ disk' = r.disk
           /\ ecall' = ECalled("put_race_data", <<tournament_id, timestamp, payload>>,
                               EUnit(r.res))
           /\ lastRace' = IF r.res.tag = "Ok"
                          THEN [lastRace EXCEPT ![<<tournament_id, timestamp>>] = Some(payload)]
                          ELSE lastRace
    /\ UNCHANGED <<backend, storeVars, codecVars>>

GetRaceData(tournament_id, timestamp) ==
    /\ ecall' = ECalled("get_race_data", <<tournament_id, timestamp>>,
                        get_race_data(backend, data, tournament_id, timestamp))
    /\ UNCHANGED <<backend, data, disk, lastRace, storeVars, codecVars>>

GetTournamentRaces(tournament_id, order) ==
    /\ ecall' = ECalled("get_tournament_races", <<tournament_id>>,
                        get_tournament_races(backend, data, order, tournament_id))
    /\ UNCHANGED <<backend, data, disk, lastRace, storeVars, codecVars>>

RaceNext ==
    \/ \E tournament_id \in RaceGroupIds, timestamp \in RaceTimestamps,
          payload \in RacePayloads, ios \in IoPlans(backend) :
          PutRaceData(tournament_id, timestamp, payload, ios[1])
    \/ \E tournament_id \in RaceGroupIds, timestamp \in RaceTimestamps :
          GetRaceData(tournament_id, timestamp)
    \/ \E tournament_id \in RaceGroupIds :
          \E order \in ScanOrders(data, tournament_scan_range(tournament_id)[1],
                                  tournament_scan_range(tournament_id)[2]) :
              GetTournamentRaces(tournament_id, order)

SpecRace == RaceInit /\ [][RaceNext]_vars

-----------------------------------------------------------------------------
(* Claims about the monthly view of the engine *)

\* the calendar, by day numbers counted from 0000-03-01
RefDayNumber(y, mo, d) ==
    LET yy == IF mo <= 2 THEN y - 1 ELSE y
        mp == (mo + 9) % 12
    IN  (365 * yy) + (yy \div 4) - (yy \div 100) + (yy \div 400)
            + (((153 * mp) + 2) \div 5) + (d - 1)

RefCivil(n) ==
    LET era == n \div 146097
        doe == n % 146097
        yoe == (doe - (doe \div 1460) + (doe \div 36524) - (doe \div 146096)) \div 365
        doy == doe - ((365 * yoe) + (yoe \div 4) - (yoe \div 100))
        mp == ((5 * doy) + 2) \div 153
        d == doy - (((153 * mp) + 2) \div 5) + 1
        mo == IF mp < 10 THEN mp + 3 ELSE mp - 9
        y == yoe + (era * 400) + (IF mo <= 2 THEN 1 ELSE 0)
    IN  [y |-> y, mo |-> mo, d |-> d]

RefIsDigit(c) == c \in 48..57

\* the fields of a text "YYYY-MM-DD"
RefDateShape(text) ==
    /\ Len(text) = 10
    /\ text[5] = 45 /\ text[8] = 45
    /\ \A i \in {1, 2, 3, 4, 6, 7, 9, 10} : RefIsDigit(text[i])

RefDateOf(text) ==
    [y |-> (1000 * (text[1] - 48)) + (100 * (text[2] - 48)) + (10 * (text[3] - 48))
               + (text[4] - 48),
     mo |-> (10 * (text[6] - 48)) + (text[7] - 48),
     d |-> (10 * (text[9] - 48)) + (text[10] - 48)]

\* a text "YYYY-MM-DD" naming a day of the calendar (after 0000-02-29)
RefParseable(text) ==
    /\ RefDateShape(text)
    /\ LET date == RefDateOf(text)
       IN  /\ date.mo \in 1..12 /\ date.d >= 1
           /\ (date.y > 0 \/ date.mo > 2)
           /\ RefCivil(RefDayNumber(date.y, date.mo, date.d)) = date

\* the year-months from the month of the start date through the month of the
\* last day of the event
RefSpan(event) ==
    LET start == RefDateOf(event.start_date)
        last == RefCivil(RefDayNumber(start.y, start.mo, start.d) + event.duration_days - 1)
    IN  {((i \div 12) * 100) + (i % 12) + 1 :
            i \in ((start.y * 12) + start.mo - 1)..((last.y * 12) + last.mo - 1)}

RefSpanKeys(event) ==
    {monthly_key(m, generate_tournament_id(event.venue_name, event.event_name)) :
        m \in RefSpan(event)}

\* C5: after register_tournament_to_months(event) succeeds for an event with a
\* parseable start date and duration_days >= 1, the store holds
\* monthly_key(m, group_id(event)) for every calendar month m from the month of
\* the start date through the month of the last day, across a year roll too;
\* every such entry decodes to the event; and the call changed no other entry
C5_RegisterWritesSpan ==
    [][(/\ ecall'.op = "register_tournament_to_months"
        /\ ecall'.res.tag = "Ok"
        /\ RefParseable(ecall'.args[1].start_date)
        /\ ecall'.args[1].duration_days >= 1)
       => LET event == ecall'.args[1]
          IN  /\ \A k \in RefSpanKeys(event) :
                    /\ k \in DOMAIN data'
                    /\ deserialize_from_string(data'[k]) = Decoded(event)
              /\ DOMAIN data' = DOMAIN data \cup RefSpanKeys(event)
              /\ \A k \in DOMAIN data \ RefSpanKeys(event) : data'[k] = data[k]]_vars

\* the December key and the January key
C5_Witness ==
    /\ ecall.op = "register_tournament_to_months"
    /\ ecall.res.tag = "Ok"
    /\ ecall.args[1] = Event_BayCup
    /\ RefSpan(Event_BayCup) = {202512, 202601}
    /\ \A m \in {202512, 202601} :
          LET k == monthly_key(m, generate_tournament_id(Event_BayCup.venue_name,
                                                         Event_BayCup.event_name))
          IN  k \in DOMAIN data /\ deserialize_from_string(data[k]) = Decoded(Event_BayCup)
    /\ Cardinality(DOMAIN data) > 2

MonthlyEntries(d) == {k \in DOMAIN d : k[1] = PREFIX_MONTHLY}

\* the events of a sequence, each counted once
SameEvents(returned, events) ==
    /\ Len(returned) = Len(events)
    /\ \E f \in [1..Len(events) -> 1..Len(events)] :
          /\ \A i, j \in 1..Len(events) : i # j => f[i] # f[j]
          /\ \A i \in 1..Len(events) : returned[i] = events[f[i]]

\* C6: after put_monthly_schedule(schedule) succeeds on an empty store, for
\* every schedule of n events with any venue and event names, the store holds
\* exactly n monthly-prefixed entries and get_monthly_schedule of that
\* year-month returns exactly the n events of the schedule
C6_OneEntryPerEvent ==
    [][(/\ ecall'.op = "put_monthly_schedule"
        /\ ecall'.res.tag = "Ok"
        /\ data = EmptyMap)
       => LET schedule == ecall'.args[1]
              year_month == parse_year_month(schedule.year_month).val[1]
              range == monthly_scan_range(year_month)
          IN  /\ Cardinality(MonthlyEntries(data')) = Len(schedule.events)
              /\ \A order \in ScanOrders(data', range[1], range[2]) :
                    LET got == get_monthly_schedule(backend, data', order, year_month)
                    IN  /\ got.tag = "Ok"
                        /\ SameEvents(got.val[1].events, schedule.events)]_vars

\* "YYYY-MM" of a year-month of at most six digits
RefTag(year_month) ==
    LET y == year_month \div 100
        mo == year_month % 100
    IN  <<48 + (y \div 1000), 48 + ((y \div 100) % 10), 48 + ((y \div 10) % 10), 48 + (y % 10),
          45, 48 + (mo \div 10), 48 + (mo % 10)>>

\* the keys of month Y: 'M', the six digits of Y, the separator, a group id
RefMonthKeys(d, year_month) ==
    {k \in DOMAIN d : IsPrefix(<<77>> \o SixDigits(year_month) \o <<0>>, k)}

\* C7: in every store state reached by put_monthly_schedule and
\* register_tournament_to_months calls in any order, get_monthly_schedule(Y)
\* returns the events stored under month Y, each once, in ascending order of
\* start_date as strings, whatever the order of the backend scan, and tags the
\* result with Y formatted as "YYYY-MM"
C7_MonthlySorted ==
    ecall.op = "get_monthly_schedule" =>
        LET year_month == ecall.args[1]
            stored == RefMonthKeys(data, year_month)
        IN  /\ ecall.res.tag = "Ok"
            /\ LET schedule == ecall.res.val[1]
                   n == Len(schedule.events)
               IN  /\ schedule.year_month = RefTag(year_month)
                   /\ \A i \in 1..(n - 1) :
                         LexLeq(schedule.events[i].start_date,
                                schedule.events[i + 1].start_date)
                   /\ n = Cardinality(stored)
                   /\ \E f \in [1..n -> stored] :
                         /\ \A i, j \in 1..n : i # j => f[i] # f[j]
                         /\ \A i \in 1..n :
                               deserialize_from_string(data[f[i]])
                                   = Decoded(schedule.events[i])

\* two events of different start dates come back, the earlier one first
C7_Witness ==
    /\ ecall.op = "get_monthly_schedule"
    /\ ecall.res.tag = "Ok"
    /\ Len(ecall.res.val[1].events) = 2
    /\ StrLess(ecall.res.val[1].events[1].start_date, ecall.res.val[1].events[2].start_date)

-----------------------------------------------------------------------------
(* Claims about the race records *)

\* C10: after any sequence of put_race_data calls, get_race_data(g, t) returns
\* the payload of the most recent put_race_data(g, t, p), and fails with
\* NotFound when no record was ever put at exactly (g, t), whatever records
\* exist for g at other timestamps or for other groups at t
C10_GetRaceDataExact ==
    ecall.op = "get_race_data" =>
        LET latest == lastRace[<<ecall.args[1], ecall.args[2]>>]
        IN  IF latest = None THEN ecall.res = EErr("NotFound")
            ELSE ecall.res = EOk(latest[1])

\* NotFound at (g, t) while g has a record at another timestamp and another
\* group has a record at t
C10_Witness ==
    /\ ecall.op = "get_race_data"
    /\ ecall.res = EErr("NotFound")
    /\ \E t \in RaceTimestamps \ {ecall.args[2]} : lastRace[<<ecall.args[1], t>>] # None
    /\ \E g \in RaceGroupIds \ {ecall.args[1]} : lastRace[<<g, ecall.args[2]>>] # None

\* the timestamps at which group g has a record, smallest first
RefTimestampsOf(g) ==
    LET present == {t \in RaceTimestamps : lastRace[<<g, t>>] # None}
        n == Cardinality(present)
    IN  CHOOSE q \in [1..n -> present] : \A i, j \in 1..n : i < j => U64Less(q[i], q[j])

\* C11: get_tournament_races(g) returns the race records of group g in
\* timestamp order: whatever the order of the puts, the i-th returned payload
\* is the one stored at the i-th smallest timestamp
C11_RacesInTimestampOrder ==
    ecall.op = "get_tournament_races" =>
        LET order == RefTimestampsOf(ecall.args[1])
        IN  /\ ecall.res.tag = "Ok"
            /\ Len(ecall.res.val[1]) = Len(order)
            /\ \A i \in 1..Len(order) :
                  ecall.res.val[1][i] = lastRace[<<ecall.args[1], order[i]>>][1]

-----------------------------------------------------------------------------
(* Race records of a group whose id continues another id after a NUL *)

\* "a" and "a\0b"
NulGroupIds == {<<97>>, <<97, 0, 98>>}

NulNeverRaced == [gt \in NulGroupIds \X RaceTimestamps |-> None]

NulInit ==
    /\ backend = "MemoryStore"
    /\ data = MemoryStore_new
    /\ disk = NoFile
    /\ ecall = NoEngineCall
    /\ lastRace = NulNeverRaced
    /\ call = NoCall
    /\ lastPut = NeverPut
    /\ kin = NoInput
    /\ kout = NoOutput

NulNext ==
    \/ \E tournament_id \in NulGroupIds, timestamp \in RaceTimestamps,
          payload \in RacePayloads, ios \in IoPlans(backend) :
          PutRaceData(tournament_id, timestamp, payload, ios[1])
    \/ \E ios \in IoPlans(backend) : RegisterTournamentToMonths(Event_YearEnd, ios)
    \/ \E tournament_id \in NulGroupIds :
          \E order \in ScanOrders(data, tournament_scan_range(tournament_id)[1],
                                  tournament_scan_range(tournament_id)[2]) :
              GetTournamentRaces(tournament_id, order)

SpecNul == NulInit /\ [][NulNext]_vars

\* the timestamps at which a record was put under group g
RefWrittenUnder(g) == {gt[2] : gt \in {x \in DOMAIN lastRace : x[1] = g /\ lastRace[x] # None}}

\* C12: tournament_scan_range(g) is ("T" + g + NUL, "T" + g + \x01) and selects
\* exactly the keys of group g, for all group ids a caller may pass to
\* put_race_data: get_tournament_races(g) returns one payload per distinct
\* timestamp written under g, never a record written under another group and
\* never a monthly-view entry
C12_ScanSelectsGroup ==
    ecall.op = "get_tournament_races" =>
        LET g == ecall.args[1]
            written == RefWrittenUnder(g)
        IN  /\ tournament_scan_range(g) = <<<<84>> \o g \o <<0>>, <<84>> \o g \o <<1>>>>
            /\ ecall.res.tag = "Ok"
            /\ Len(ecall.res.val[1]) = Cardinality(written)
            /\ \E f \in [1..Cardinality(written) -> written] :
                  /\ \A i, j \in 1..Cardinality(written) : i # j => f[i] # f[j]
                  /\ \A i \in 1..Cardinality(written) :
                        ecall.res.val[1][i] = lastRace[<<g, f[i]>>][1]

-----------------------------------------------------------------------------
(* get_statistics *)

RECURSIVE SplitNulFrom(_, _, _, _)
\* str::split('\x00') from position pos on: done holds the pieces already
\* closed, piece the one being read
SplitNulFrom(str, pos, done, piece) ==
    IF pos > Len(str) THEN Append(done, piece)
    ELSE IF str[pos] = 0 THEN SplitNulFrom(str, pos + 1, Append(done, piece), <<>>)
    ELSE SplitNulFrom(str, pos + 1, done, Append(piece, str[pos]))

\* str::split('\x00'): the pieces between the NULs
SplitNul(str) == SplitNulFrom(str, 1, <<>>, <<>>)

\* k.starts_with(c)
starts_with(k, c) == Len(k) >= 1 /\ k[1] = c

\* all_keys.iter().filter(|k| k.starts_with(c)).count()
CountPrefixed(all_keys, c) ==
    Cardinality({i \in 1..Len(all_keys) : starts_with(all_keys[i], c)})

\* the set collected from k.split('\x00').nth(1) of the keys that start with 'M'
SecondSegments(all_keys) ==
    {SplitNul(all_keys[i])[2] :
        i \in {j \in 1..Len(all_keys) :
                  starts_with(all_keys[j], 77) /\ Len(SplitNul(all_keys[j])) >= 2}}

\* the groups counted from the keys that start with 'T'
get_statistics_groupsOfRecords(b, d, order) ==
    LET all_keys == Store_keys(b, d, order)
    IN  IF all_keys.tag = "Err" THEN EErr(all_keys.err)
        ELSE EOk(<<CountPrefixed(all_keys.list, 77),
                   Cardinality({SplitNul(all_keys.list[i])[1] :
                                   i \in {j \in 1..Len(all_keys.list) :
                                             starts_with(all_keys.list[j], 84)}}),
                   CountPrefixed(all_keys.list, 84)>>)

\* the groups counted once per monthly key
get_statistics_perEntry(b, d, order) ==
    LET all_keys == Store_keys(b, d, order)
    IN  IF all_keys.tag = "Err" THEN EErr(all_keys.err)
        ELSE EOk(<<CountPrefixed(all_keys.list, 77),
                   CountPrefixed(all_keys.list, 77),
                   CountPrefixed(all_keys.list, 84)>>)

get_statistics(b, d, order) ==
    LET all_keys == Store_keys(b, d, order)
    IN  IF all_keys.tag = "Err" THEN EErr(all_keys.err)
        ELSE LET monthly_keys == CountPrefixed(all_keys.list, 77)
                 tournament_keys == CountPrefixed(all_keys.list, 84)
                 unique_tournaments == Cardinality(SecondSegments(all_keys.list))
             IN  EOk(<<monthly_keys, unique_tournaments, tournament_keys>>)

\* events of two different group ids
StatsEvents == {Event_BayCup, Event_YearEnd}

\* "2025-12"
StatsTag == <<50, 48, 50, 53, 45, 49, 50>>

StatsSchedules ==
    {MonthlySchedule(StatsTag, events) : events \in DistinctSeqs(StatsEvents, MaxSchedLen)}

\* "tokyo_bay_cup", the group of Event_BayCup, and "x", the group of no event
Group_BayCup == generate_tournament_id(Event_BayCup.venue_name, Event_BayCup.event_name)
Group_X == <<120>>

\* the (group, timestamp) pairs of the race records put
StatsRecords ==
    {<<Group_BayCup, <<0, 0, 0, 9>>>>, <<Group_BayCup, <<0, 0, 0, 16>>>>,
     <<Group_X, <<0, 0, 0, 9>>>>}

\* "r1"
StatsPayload == <<114, 49>>

StatsNeverRaced == [gt \in StatsRecords |-> None]

StatsInit ==
    /\ backend = "MemoryStore"
    /\ data = MemoryStore_new
    /\ disk = NoFile
    /\ ecall = NoEngineCall
    /\ lastRace = StatsNeverRaced
    /\ call = NoCall
    /\ lastPut = NeverPut
    /\ kin = NoInput
    /\ kout = NoOutput

GetStatistics(order) ==
    /\ ecall' = ECalled("get_statistics", <<>>, get_statistics(backend, data, order))
    /\ UNCHANGED <<backend, data, disk, lastRace, storeVars, codecVars>>

StatsNext ==
    \/ \E schedule \in StatsSchedules, ios \in IoPlans(backend) :
          PutMonthlySchedule(schedule, ios)
    \/ \E tournament \in StatsEvents, ios \in IoPlans(backend) :
          RegisterTournamentToMonths(tournament, ios)
    \/ \E gt \in StatsRecords, ios \in IoPlans(backend) :
          PutRaceData(gt[1], gt[2], StatsPayload, ios[1])
    \/ \E order \in IterOrders(data) : GetStatistics(order)

SpecStats == StatsInit /\ [][StatsNext]_vars

-----------------------------------------------------------------------------
(* Claims about get_statistics *)

RecordEntries(d) == {k \in DOMAIN d : k[1] = PREFIX_TOURNAMENT}

\* the fields of a monthly key: 'M', six digits, NUL, the group id
RefMonthDigits(k) == SubSeq(k, 2, 7)
RefGroupOfMonthly(k) == SubSeq(k, 9, Len(k))

\* the group of a record key: 'T', the group id, NUL, sixteen hex digits
RefGroupOfRecord(k) == SubSeq(k, 2, Len(k) - 17)

RefMonthlyGroups(d) == {RefGroupOfMonthly(k) : k \in MonthlyEntries(d)}

\* one monthly schedule of several events, and two race records, both of one of
\* its groups
OneScheduleTwoRecords ==
    /\ Cardinality(MonthlyEntries(data)) > 1
    /\ \A k1, k2 \in MonthlyEntries(data) : RefMonthDigits(k1) = RefMonthDigits(k2)
    /\ Cardinality(RecordEntries(data)) = 2
    /\ \E g \in RefMonthlyGroups(data) :
          \A k \in RecordEntries(data) : RefGroupOfRecord(k) = g

\* C13 as stated: on a store holding one monthly schedule with several events
\* of distinct group ids plus two race records for exactly one of those
\* groups, get_statistics returns (events_count, 1, 2)
C13_Original ==
    (ecall.op = "get_statistics" /\ OneScheduleTwoRecords) =>
        ecall.res = EOk(<<Cardinality(MonthlyEntries(data)), 1, 2>>)

\* C13, amended: on such a store get_statistics returns
\* (events_count, events_count, 2): every group of the schedule is counted,
\* with or without race records
C13_StatisticsOfSchedule ==
    (ecall.op = "get_statistics" /\ OneScheduleTwoRecords) =>
        ecall.res = EOk(<<Cardinality(MonthlyEntries(data)),
                          Cardinality(MonthlyEntries(data)), 2>>)

C13_Witness ==
    /\ ecall.op = "get_statistics"
    /\ OneScheduleTwoRecords
    /\ ecall.res = EOk(<<2, 2, 2>>)

\* C14: after any sequence of engine writes get_statistics returns (a, b, c):
\* a the number of stored keys with prefix M, c the number with prefix T, b the
\* number of distinct group ids in the M-prefixed keys; so b <= a, a group
\* registered under n months counts once in b and n times in a, and a group
\* with race records only adds nothing to b
C14_StatisticsCounts ==
    ecall.op = "get_statistics" =>
        LET a == Cardinality(MonthlyEntries(data))
            b == Cardinality(RefMonthlyGroups(data))
            c == Cardinality(RecordEntries(data))
        IN  /\ ecall.res = EOk(<<a, b, c>>)
            /\ b <= a

\* one group under two months, and race records of a group of no monthly entry
C14_Witness ==
    /\ ecall.op = "get_statistics"
    /\ Cardinality({k \in MonthlyEntries(data) : RefGroupOfMonthly(k) = Group_BayCup}) = 2
    /\ \E k \in RecordEntries(data) : RefGroupOfRecord(k) = Group_X
    /\ Group_X \notin RefMonthlyGroups(data)
    /\ ecall.res.val[1][2] < ecall.res.val[1][1]
    /\ ecall.res.val[1][3] >= 1

-----------------------------------------------------------------------------
(* put_monthly_schedule under malformed year-month tags *)

\* "2025-12" and "+2025-12" parse; the others do not: "invalid", "2025-13",
\* "2025-00", "2025-09-01", "", "2025", "2025-", "-12", "20a5-12", "2025-1x",
\* "2025--12", " 2025-12"
GoodTags == {<<50, 48, 50, 53, 45, 49, 50>>, <<43, 50, 48, 50, 53, 45, 49, 50>>}

BadTags ==
    {<<105, 110, 118, 97, 108, 105, 100>>,
     <<50, 48, 50, 53, 45, 49, 51>>,
     <<50, 48, 50, 53, 45, 48, 48>>,
     <<50, 48, 50, 53, 45, 48, 57, 45, 48, 49>>,
     <<>>,
     <<50, 48, 50, 53>>,
     <<50, 48, 50, 53, 45>>,
     <<45, 49, 50>>,
     <<50, 48, 97, 53, 45, 49, 50>>,
     <<50, 48, 50, 53, 45, 49, 120>>,
     <<50, 48, 50, 53, 45, 45, 49, 50>>,
     <<32, 50, 48, 50, 53, 45, 49, 50>>}

TagSchedules ==
    {MonthlySchedule(tag, events) :
        tag \in GoodTags \cup BadTags, events \in DistinctSeqs(StatsEvents, MaxSchedLen)}

TagInit ==
    /\ backend \in {"MemoryStore", "FileStore"}
    /\ data = EmptyMap
    /\ disk = NoFile
    /\ ecall = NoEngineCall
    /\ lastRace = NoRace
    /\ call = NoCall
    /\ lastPut = NeverPut
    /\ kin = NoInput
    /\ kout = NoOutput

TagNext ==
    \/ \E schedule \in TagSchedules : PutMonthlySchedule(schedule, AllOk)
    \/ \E year_month \in ReadMonths :
          \E order \in ScanOrders(data, monthly_scan_range(year_month)[1],
                                  monthly_scan_range(year_month)[2]) :
              GetMonthlySchedule(year_month, order)

SpecTag == TagInit /\ [][TagNext]_vars

\* a numeral: an optional '+' and one digit or more
RefNumeral(part) ==
    LET digits == IF Len(part) >= 1 /\ part[1] = 43 THEN SubSeq(part, 2, Len(part)) ELSE part
    IN  Len(digits) >= 1 /\ \A i \in 1..Len(digits) : digits[i] \in 48..57

\* the number a numeral writes
RefNumber(part) ==
    LET digits == IF Len(part) >= 1 /\ part[1] = 43 THEN SubSeq(part, 2, Len(part)) ELSE part
        f[i \in 0..Len(digits)] ==
            IF i = 0 THEN 0 ELSE (digits[i] - 48) * Pow10(Len(digits) - i)
        RECURSIVE Sum(_)
        Sum(i) == IF i = 0 THEN 0 ELSE f[i] + Sum(i - 1)
    IN  Sum(Len(digits))

\* exactly two hyphen-separated numeric parts, the month part within 1..12
RefTagWellFormed(tag) ==
    LET hyphens == {i \in 1..Len(tag) : tag[i] = 45}
    IN  /\ Cardinality(hyphens) = 1
        /\ LET h == CHOOSE i \in hyphens : TRUE
               year == SubSeq(tag, 1, h - 1)
               month == SubSeq(tag, h + 1, Len(tag))
           IN  /\ RefNumeral(year)
               /\ RefNumeral(month)
               /\ RefNumber(month) \in 1..12

\* C15: put_monthly_schedule on a schedule whose year_month tag is not exactly
\* two hyphen-separated numeric parts, or whose month part is outside 1..12,
\* fails with InvalidValue and writes nothing: the store is unchanged even when
\* the schedule contains events
C15_BadTagRejected ==
    [][(/\ ecall'.op = "put_monthly_schedule"
        /\ ~RefTagWellFormed(ecall'.args[1].year_month))
       => (/\ ecall'.res = EErr("InvalidValue")
           /\ data' = data
           /\ disk' = disk)]_vars

\* "2025-13" with events, on a store that already holds entries
C15_Witness ==
    /\ ecall.op = "put_monthly_schedule"
    /\ ecall.args[1].year_month = <<50, 48, 50, 53, 45, 49, 51>>
    /\ Len(ecall.args[1].events) >= 1
    /\ ecall.res = EErr("InvalidValue")
    /\ data # EmptyMap

-----------------------------------------------------------------------------
(* Registration under failing saves, unparseable dates and long durations *)

\* "2025-02-30", a day that does not exist, and "invalid"
Event_NoSuchDay == [Event_YearEnd EXCEPT !.start_date = DateText(2025, 2, 30)]
Event_NoDate == [Event_YearEnd EXCEPT !.start_date = <<105, 110, 118, 97, 108, 105, 100>>]

\* durations whose last day lies after NaiveDate::MAX: 10^8 days and 2^31 - 1 days
Event_TooLong == [Event_YearEnd EXCEPT !.duration_days = 100000000]
Event_LongestInt == [Event_YearEnd EXCEPT !.duration_days = 2147483647]

\* no day at all
Event_NoDays == [Event_YearEnd EXCEPT !.duration_days = 0]

RegisterEvents ==
    {Event_NewYear, Event_NoSuchDay, Event_NoDate, Event_TooLong, Event_LongestInt,
     Event_NoDays}

\* what the file system does during one call: no failure, or the k-th save
\* fails at open, write_all or sync_all
NoFault == <<0, "ok">>
Faults(b) ==
    IF b = "MemoryStore" THEN {NoFault}
    ELSE {NoFault} \cup ((1..(MaxSchedLen + 1)) \X (SaveOutcomes \ {"ok"}))

PlanOf(fault) == IF fault = NoFault THEN AllOk ELSE FailAt(fault[1], fault[2])

RegisterInit ==
    /\ backend \in {"MemoryStore", "FileStore"}
    /\ data = EmptyMap
    /\ disk = NoFile
    /\ ecall = NoEngineCall
    /\ lastRace = NoRace
    /\ call = NoCall
    /\ lastPut = NeverPut
    /\ kin = NoInput
    /\ kout = NoOutput

\* the process goes on after every call that returned
Returned == ecall.res.tag # "Panic"

\* register_tournament_to_months under a fault of the file system, which the
\* record of the call keeps next to the argument
RegisterUnderFault(tournament, fault) ==
    /\ Returned
    /\ LET r == register_tournament_to_months(backend, data, disk, tournament, PlanOf(fault))
       IN  /\ data' = r.data
           /\ disk' = r.disk
           /\ ecall' = ECalled("register_tournament_to_months", <<tournament, fault>>,
                               EUnit(r.res))
    /\ UNCHANGED <<backend, lastRace, storeVars, codecVars>>

ReadAfterRegister(year_month, order) ==
    /\ Returned
    /\ GetMonthlySchedule(year_month, order)

RegisterNext ==
    \/ \E tournament \in RegisterEvents, fault \in Faults(backend) :
          RegisterUnderFault(tournament, fault)
    \/ \E year_month \in ReadMonths :
          \E order \in ScanOrders(data, monthly_scan_range(year_month)[1],
                                  monthly_scan_range(year_month)[2]) :
              ReadAfterRegister(year_month, order)

SpecRegister == RegisterInit /\ [][RegisterNext]_vars

-----------------------------------------------------------------------------
(* Claims about registration *)

\* the last day of the event lies after 262143-12-31
RefLeavesCalendar(event) ==
    LET start == RefDateOf(event.start_date)
    IN  event.duration_days - 1
            > RefDayNumber(262143, 12, 31) - RefDayNumber(start.y, start.mo, start.d)

\* C16: register_tournament_to_months returns the error value InvalidValue to
\* its caller both when the start_date of the event does not parse as a
\* calendar date and when start date + (duration_days - 1) days leaves the
\* representable calendar range, for every duration_days
C16_InvalidValueReturned ==
    (/\ ecall.op = "register_tournament_to_months"
     /\ \/ ~RefParseable(ecall.args[1].start_date)
        \/ RefLeavesCalendar(ecall.args[1]))
    => ecall.res = EErr("InvalidValue")

\* the year-months of the span, first month first
RefSpanSeq(event) ==
    LET span == RefSpan(event)
    IN  CHOOSE q \in [1..Cardinality(span) -> span] :
            \A i, j \in 1..Cardinality(span) : i < j => q[i] < q[j]

RefKeyOfMonth(event, m) ==
    monthly_key(m, generate_tournament_id(event.venue_name, event.event_name))

\* a registration that goes as far as its k-th write, which fails
RefFailsAtWrite(event, fault) ==
    /\ fault # NoFault
    /\ RefParseable(event.start_date)
    /\ event.duration_days >= 1
    /\ ~RefLeavesCalendar(event)
    /\ fault[1] <= Cardinality(RefSpan(event))

\* C19: if register_tournament_to_months spans n months and its store write
\* for month k fails, the call returns that error, and afterwards the entries
\* of the event for months 1..k-1 are present in the store as subsequent reads
\* see it, while those for months k..n are absent unless they existed before
C19_FailedWriteAbsent ==
    [][(/\ ecall'.op = "register_tournament_to_months"
        /\ RefFailsAtWrite(ecall'.args[1], ecall'.args[2]))
       => LET event == ecall'.args[1]
              k == ecall'.args[2][1]
              months == RefSpanSeq(event)
          IN  /\ ecall'.res = EErr("IoError")
              /\ \A i \in 1..Len(months) :
                    LET key == RefKeyOfMonth(event, months[i])
                    IN  IF i < k
                        THEN /\ key \in DOMAIN data'
                             /\ deserialize_from_string(data'[key]) = Decoded(event)
                        ELSE /\ (key \in DOMAIN data') = (key \in DOMAIN data)
                             /\ key \in DOMAIN data => data'[key] = data[key]]_vars

\* C20: register_tournament_to_months is retry-idempotent: from every store
\* state and for every event, running it again after a run leaves the store
\* contents of that run, and running it again after a run that failed part-way
\* leaves the contents of one fully successful run
C20_RetryIdempotent ==
    [][ecall'.op = "register_tournament_to_months"
       => LET event == ecall'.args[1]
              once == register_tournament_to_months(backend, data, disk, event, AllOk)
              again == register_tournament_to_months(backend, data', disk', event, AllOk)
          IN  /\ again.res = once.res
              /\ again.data = once.data
              /\ again.disk = once.disk
              /\ ecall'.res.tag = "Ok" => (again.data = data' /\ again.disk = disk')]_vars

\* a run of three months that failed at its second write: the retry has
\* something to complete
C20_Witness ==
    /\ ecall.op = "register_tournament_to_months"
    /\ ecall.args[1] = Event_NewYear
    /\ ecall.args[2][1] = 2
    /\ ecall.res = EErr("IoError")
    /\ RefKeyOfMonth(Event_NewYear, 202511) \in DOMAIN data
    /\ RefKeyOfMonth(Event_NewYear, 202601) \notin DOMAIN data
    /\ register_tournament_to_months(backend, data, disk, Event_NewYear, AllOk).data # data

-----------------------------------------------------------------------------
(* The value codec on its own: payloads and malformed texts *)

RECURSIVE BincodeEvents(_)
\* the elements of a Vec<RaceEvent>, one after the other
BincodeEvents(events) ==
    IF events = <<>> THEN <<>>
    ELSE BincodeRaceEvent(Head(events)) \o BincodeEvents(Tail(events))

\* the encoding without the element count of the Vec
BincodeMonthlySchedule_noCount(schedule) ==
    BincodeString(schedule.year_month) \o BincodeEvents(schedule.events)

\* bincode::serialize of a MonthlySchedule: year_month, then events as a u64
\* element count followed by the elements
BincodeMonthlySchedule(schedule) ==
    BincodeString(schedule.year_month) \o BincodeLen(Len(schedule.events))
        \o BincodeEvents(schedule.events)

\* reading a RaceEvent at pos: the fields in declaration order
ReadRaceEvent(bytes, pos) ==
    LET f1 == ReadU32(bytes, pos)
        f2 == ReadString(bytes, f1.pos)
        f3 == ReadString(bytes, f2.pos)
        f4 == ReadString(bytes, f3.pos)
        f5 == ReadString(bytes, f4.pos)
        f6 == ReadU32(bytes, f5.pos)
    IN  IF f1.ok /\ f2.ok /\ f3.ok /\ f4.ok /\ f5.ok /\ f6.ok
        THEN [ok |-> TRUE,
              val |-> RaceEvent(f1.val, f2.val, f3.val, f4.val, f5.val, f6.val),
              pos |-> f6.pos]
        ELSE [ok |-> FALSE, val |-> <<>>, pos |-> pos]

RECURSIVE ReadEvents(_, _, _, _)
\* reading n RaceEvents from pos on; the first element that cannot be read
\* fails the whole Vec
ReadEvents(bytes, pos, n, acc) ==
    IF n = 0 THEN [ok |-> TRUE, val |-> acc, pos |-> pos]
    ELSE LET e == ReadRaceEvent(bytes, pos)
         IN  IF ~e.ok THEN [ok |-> FALSE, val |-> <<>>, pos |-> pos]
             ELSE ReadEvents(bytes, e.pos, n - 1, Append(acc, e.val))

\* reading the u64 element count of a Vec at pos
ReadLen(bytes, pos) ==
    LET lo == ReadU32(bytes, pos)
    IN  IF pos + 7 > Len(bytes) \/ ~lo.ok THEN [ok |-> FALSE, val |-> 0, pos |-> pos]
        ELSE IF \E i \in 4..7 : bytes[pos + i] # 0 THEN [ok |-> FALSE, val |-> 0, pos |-> pos]
        ELSE [ok |-> TRUE, val |-> lo.val, pos |-> pos + 8]

\* bincode::deserialize::<MonthlySchedule>: bytes after the last element are
\* ignored
UnBincodeMonthlySchedule(bytes) ==
    LET f1 == ReadString(bytes, 1)
        count == ReadLen(bytes, f1.pos)
        f2 == ReadEvents(bytes, count.pos, count.val, <<>>)
    IN  IF f1.ok /\ count.ok /\ f2.ok THEN Decoded(MonthlySchedule(f1.val, f2.val))
        ELSE DecodeError

\* serialize_to_string::<MonthlySchedule>
serialize_to_string_schedule(schedule) == Base64Encode(BincodeMonthlySchedule(schedule))

\* deserialize_from_string::<MonthlySchedule>
deserialize_from_string_schedule(text) ==
    LET binary == Base64Decode(text)
    IN  IF ~binary.ok THEN DecodeError ELSE UnBincodeMonthlySchedule(binary.val[1])

\* RaceEvents with empty, ASCII, 2-, 3- and 4-byte names, the smallest and the
\* largest counts the model's integers hold
CodecEvents ==
    {RaceEvent(id, venue, event, grade, DateText(2025, 9, 11), days) :
        id \in {0, 4, 2147483647},
        venue \in {<<>>, Name_Heiwajima, <<233, 128676>>},
        event \in {<<>>, <<66>>},
        grade \in {<<71, 49>>, <<19968, 33324>>},
        days \in {0, 6, 2147483647}}
    \cup {Event_BayCup, Event_YearEnd, Event_NewYear}

\* schedules of 0..MaxSchedLen events, repetitions included, under a tag and
\* under the empty tag
CodecSchedules ==
    {MonthlySchedule(tag, events) :
        tag \in {<<>>, <<50, 48, 50, 53, 45, 48, 57>>},
        events \in StringsUpTo({Event_BayCup, Event_YearEnd}, MaxSchedLen)}

\* the payloads whose encodings are damaged below
Sample_Event == Event_YearEnd
Sample_Schedule == MonthlySchedule(<<50, 48, 50, 53, 45, 48, 57>>, <<Event_YearEnd>>)
Sample_String == <<233, 66>>

\* "invalid_base64!" of test_invalid_data_deserialization
Text_invalid_base64 ==
    <<105, 110, 118, 97, 108, 105, 100, 95, 98, 97, 115, 101, 54, 52, 33>>

\* texts that are not Base64 STANDARD, made from the valid text: a char outside
\* the alphabet ('!', ' ', '-'), padding in the middle, lost padding, added
\* padding; and "TWE" (no padding), "TWF=" (bits set under the padding)
NotBase64(text) ==
    {Text_invalid_base64, <<84, 87, 69>>, <<84, 87, 70, 61>>,
     [text EXCEPT ![1] = 33], [text EXCEPT ![Len(text) \div 2] = 32],
     [text EXCEPT ![3] = 45], [text EXCEPT ![2] = 61],
     text \o <<61>>, <<61>> \o text, SubSeq(text, 1, Len(text) - 1)}

\* every proper prefix of the encoded bytes, and [0xFF, 0xFE, 0xFD] of
\* test_invalid_data_deserialization
Truncated(bytes) ==
    {Base64Encode(SubSeq(bytes, 1, k)) : k \in 0..(Len(bytes) - 1)}
        \cup {Base64Encode(<<255, 254, 253>>)}

\* every proper prefix of the text
CutText(text) == {SubSeq(text, 1, k) : k \in 0..(Len(text) - 1)}

\* bytes that no longer parse: the string length at lenAt made larger than
\* the data, made 2^32 or more, and the first byte of that string made 0xFF,
\* which no UTF-8 text holds
Unparseable(bytes, lenAt) ==
    {Base64Encode([bytes EXCEPT ![lenAt] = 255]),
     Base64Encode([bytes EXCEPT ![lenAt + 1] = 1]),
     Base64Encode([bytes EXCEPT ![lenAt + 4] = 1]),
     Base64Encode([bytes EXCEPT ![lenAt + 7] = 128]),
     Base64Encode([bytes EXCEPT ![lenAt + 8] = 255])}

\* damaged bytes that still parse: bytes added after the payload, and one byte
\* of a field replaced (alterAt is a byte of a u32 or of a 1-byte char)
StillParseable(bytes, alterAt) ==
    {Base64Encode(bytes \o <<255>>), Base64Encode(bytes \o <<0, 0, 0>>),
     Base64Encode([bytes EXCEPT ![alterAt] = 90])}

\* the texts to decode as type fn, each with the way it was damaged
DamagedTexts(fn, bytes, lenAt, alterAt) ==
    LET text == Base64Encode(bytes)
    IN  {Input(fn, 0, 0, t, "not_base64", <<>>, <<>>) : t \in NotBase64(text)}
        \cup {Input(fn, 0, 0, t, "truncated", <<>>, <<>>) : t \in Truncated(bytes)}
        \cup {Input(fn, 0, 0, t, "cut_text", <<>>, <<>>) : t \in CutText(text)}
        \cup {Input(fn, 0, 0, t, "unparseable", <<>>, <<>>) : t \in Unparseable(bytes, lenAt)}
        \cup {Input(fn, 0, 0, t, "still_parseable", <<>>, <<>>) :
                t \in StillParseable(bytes, alterAt)}

\* the inputs by type of kin.s1: a RaceEvent, a MonthlySchedule, a string
CodecEventInputs ==
    {Input("RaceEvent", 0, 0, p, "payload", <<>>, <<>>) : p \in CodecEvents}

CodecScheduleInputs ==
    {Input("MonthlySchedule", 0, 0, p, "payload", <<>>, <<>>) : p \in CodecSchedules}

CodecTextInputs ==
    {Input("String", 0, 0, p, "payload", <<>>, <<>>) : p \in Names}
    \cup DamagedTexts("RaceEvent", BincodeRaceEvent(Sample_Event), 5, 1)
    \cup DamagedTexts("MonthlySchedule", BincodeMonthlySchedule(Sample_Schedule), 1, 9)
    \cup DamagedTexts("String", BincodeString(Sample_String), 1, 11)

CodecInit ==
    /\ \/ kin \in CodecEventInputs
       \/ kin \in CodecScheduleInputs
       \/ kin \in CodecTextInputs
    /\ kout = NoOutput
    /\ backend = "MemoryStore"
    /\ data = EmptyMap
    /\ disk = NoFile
    /\ call = NoCall
    /\ lastPut = NeverPut
    /\ ecall = NoEngineCall
    /\ lastRace = NoRace

\* serialize_to_string(&p) of a RaceEvent, and deserialize_from_string of the text
RoundTrip_RaceEvent ==
    /\ kin.fn = "RaceEvent" /\ kin.s2 = "payload"
    /\ ~kout.done
    /\ LET encoded == serialize_to_string(kin.s1)
       IN  kout' = Output(encoded, deserialize_from_string(encoded), <<>>)
    /\ UNCHANGED <<kin, backend, data, disk, storeVars, engineVars>>

\* the same for a MonthlySchedule
RoundTrip_MonthlySchedule ==
    /\ kin.fn = "MonthlySchedule" /\ kin.s2 = "payload"
    /\ ~kout.done
    /\ LET encoded == serialize_to_string_schedule(kin.s1)
       IN  kout' = Output(encoded, deserialize_from_string_schedule(encoded), <<>>)
    /\ UNCHANGED <<kin, backend, data, disk, storeVars, engineVars>>

\* the same for a String
RoundTrip_String ==
    /\ kin.fn = "String" /\ kin.s2 = "payload"
    /\ ~kout.done
    /\ LET encoded == serialize_to_string_str(kin.s1)
       IN  kout' = Output(encoded, deserialize_from_string_str(encoded), <<>>)
    /\ UNCHANGED <<kin, backend, data, disk, storeVars, engineVars>>

\* deserialize_from_string::<RaceEvent> of a text
Decode_RaceEvent ==
    /\ kin.fn = "RaceEvent" /\ kin.s2 # "payload"
    /\ ~kout.done
    /\ kout' = Output(kin.s1, deserialize_from_string(kin.s1), <<>>)
    /\ UNCHANGED <<kin, backend, data, disk, storeVars, engineVars>>

\* deserialize_from_string::<MonthlySchedule> of a text
Decode_MonthlySchedule ==
    /\ kin.fn = "MonthlySchedule" /\ kin.s2 # "payload"
    /\ ~kout.done
    /\ kout' = Output(kin.s1, deserialize_from_string_schedule(kin.s1), <<>>)
    /\ UNCHANGED <<kin, backend, data, disk, storeVars, engineVars>>

\* deserialize_from_string::<String> of a text
Decode_String ==
    /\ kin.fn = "String" /\ kin.s2 # "payload"
    /\ ~kout.done
    /\ kout' = Output(kin.s1, deserialize_from_string_str(kin.s1), <<>>)
    /\ UNCHANGED <<kin, backend, data, disk, storeVars, engineVars>>

CodecNext ==
    \/ RoundTrip_RaceEvent
    \/ RoundTrip_MonthlySchedule
    \/ RoundTrip_String
    \/ Decode_RaceEvent
    \/ Decode_MonthlySchedule
    \/ Decode_String

SpecCodec == CodecInit /\ [][CodecNext]_vars

-----------------------------------------------------------------------------
(* Claims about the value codec *)

\* the payload comes back field for field
RoundTrips ==
    (kin.s2 = "payload" /\ kout.done) => kout.r2 = Decoded(kin.s1)

\* the statement as made: every payload round-trips, and every text that is
\* not Base64 or whose bytes are cut short or altered is refused
C17_Original ==
    /\ RoundTrips
    /\ (kin.s2 # "payload" /\ kout.done) => kout.r2 = DecodeError

\* C17: for every payload p (RaceEvent, MonthlySchedule, String),
\* deserialize_from_string(serialize_to_string(p)) succeeds and equals p field
\* for field; deserialize_from_string fails with SerializationError on text
\* that is not valid Base64 and on text whose decoded bytes end before the
\* payload is complete, announce a length beyond the data, or hold a string
\* that is not UTF-8; damaged bytes that still parse are decoded, not refused
C17_RoundTripAndMalformedFail ==
    /\ RoundTrips
    /\ (kin.s2 \in {"not_base64", "truncated", "cut_text", "unparseable"} /\ kout.done)
          => kout.r2 = DecodeError
    /\ (kin.s2 = "still_parseable" /\ kout.done) => kout.r2.ok

\* a schedule of MaxSchedLen events with multi-byte names that came back
C17_Witness ==
    /\ kin.fn = "MonthlySchedule" /\ kin.s2 = "payload"
    /\ Len(kin.s1.events) = MaxSchedLen
    /\ kin.s1.events[1] = Event_YearEnd
    /\ kout.done
    /\ kout.r1 # <<>>
    /\ kout.r2 = Decoded(kin.s1)

-----------------------------------------------------------------------------
(* A FileStore written to and opened again on the same path *)

\* keys and values with chars that JSON escapes: "M\0\"\u{e9}" and "\\\n\u{1}",
\* "x\"\\" and "\t\u{1f6a4}\r"; and the empty key
Key_Quoted == <<77, 0, 34, 233>>
Key_Control == <<92, 10, 1>>
ReopenKeys == {<<>>, Key_Quoted, Key_Control}
Value_Quoted == <<120, 34, 92>>
Value_Control == <<9, 128676, 13>>
ReopenValues == {Value_Quoted, Value_Control}

\* FileStore::new(path) on a path with no file, an empty file or a file of
\* whitespace
ReopenInit ==
    /\ backend = "FileStore"
    /\ disk \in {NoFile, EmptyFile, BlankFile}
    /\ data = FileStore_load(disk, <<>>).data
    /\ call = NoCall
    /\ lastPut = NeverPut
    /\ kin = NoInput
    /\ kout = NoOutput
    /\ ecall = NoEngineCall
    /\ lastRace = NoRace

DurablePut(k, v, io) ==
    /\ LET r == FileStore_put(data, disk, k, v, io)
       IN  /\ data' = r.data
           /\ disk' = r.disk
           /\ call' = Called("put", k, v, r.res)
    /\ UNCHANGED <<backend, lastPut, codecVars, engineVars>>

DurableDelete(k, io) ==
    /\ LET r == FileStore_delete(data, disk, k, io)
       IN  /\ data' = r.data
           /\ disk' = r.disk
           /\ call' = Called("delete", k, <<>>, r.res)
    /\ UNCHANGED <<backend, lastPut, codecVars, engineVars>>

DurableClear(io) ==
    /\ LET r == FileStore_clear(data, disk, io)
       IN  /\ data' = r.data
           /\ disk' = r.disk
           /\ call' = Called("clear", <<>>, <<>>, r.res)
    /\ UNCHANGED <<backend, lastPut, codecVars, engineVars>>

\* FileStore::new on the same path: the new handle takes the place of the
\* old one; when load fails there is no new handle and the old one stays
Reopen ==
    /\ \E order \in IterOrders(disk.data) :
          LET r == FileStore_load(disk, order)
          IN  /\ call' = Called("new", <<>>, <<>>, r.res)
              /\ data' = IF r.res = OkUnit THEN r.data ELSE data
    /\ UNCHANGED <<backend, disk, lastPut, codecVars, engineVars>>

ReopenNext ==
    \/ \E k \in ReopenKeys, v \in ReopenValues, io \in SaveOutcomes : DurablePut(k, v, io)
    \/ \E k \in ReopenKeys, io \in SaveOutcomes : DurableDelete(k, io)
    \/ \E io \in SaveOutcomes : DurableClear(io)
    \/ Reopen

SpecReopen == ReopenInit /\ [][ReopenNext]_vars

-----------------------------------------------------------------------------
(* Claims about durability *)

\* C18: when a FileStore is opened on the path of a store whose calls so far
\* (put, delete, clear, opening) all succeeded, and so whose last call
\* succeeded, opening succeeds and the new store's key-to-value map is the
\* first store's map at that moment; opening a missing or empty file succeeds
\* and yields an empty store
C18_ReopenSameMap ==
    [][call'.op = "new"
       => /\ call.res = OkUnit => (call'.res = OkUnit /\ data' = data)
          /\ disk.state \in {"missing", "empty"}
                => (call'.res = OkUnit /\ data' = EmptyMap)]_vars

\* a store opened on a snapshot of two entries whose keys and values need
\* escaping
C18_Witness ==
    /\ call.op = "new"
    /\ call.res = OkUnit
    /\ disk.state = "snapshot"
    /\ data = (Key_Quoted :> Value_Control) @@ (Key_Control :> Value_Quoted)

-----------------------------------------------------------------------------
(* Year-months of more than 6 digits *)

\* "20251-01" (year 20251, month 1: year-month 2025101), "2025-10", "2025-11"
Tag_20251_01 == <<50, 48, 50, 53, 49, 45, 48, 49>>
Tag_2025_10 == <<50, 48, 50, 53, 45, 49, 48>>
Tag_2025_11 == <<50, 48, 50, 53, 45, 49, 49>>

\* each event is written under one tag only
LongYearSchedules ==
    {MonthlySchedule(Tag_20251_01, <<Event_BayCup>>),
     MonthlySchedule(Tag_2025_10, <<Event_YearEnd>>),
     MonthlySchedule(Tag_2025_11, <<Event_NewYear>>),
     MonthlySchedule(Tag_2025_11, <<Event_NewYear, Event_NewYear>>)}

LongYearMonths == {202509, 202510, 202511, 202512, 2025101, 2025102}

LongYearInit ==
    /\ backend \in {"MemoryStore", "FileStore"}
    /\ data = EmptyMap
    /\ disk = NoFile
    /\ ecall = NoEngineCall
    /\ lastRace = NoRace
    /\ call = NoCall
    /\ lastPut = NeverPut
    /\ kin = NoInput
    /\ kout = NoOutput

LongYearNext ==
    \/ \E schedule \in LongYearSchedules : PutMonthlySchedule(schedule, AllOk)
    \/ \E year_month \in LongYearMonths :
          \E order \in ScanOrders(data, monthly_scan_range(year_month)[1],
                                  monthly_scan_range(year_month)[2]) :
              GetMonthlySchedule(year_month, order)

SpecLongYear == LongYearInit /\ [][LongYearNext]_vars

\* the year-month an event is written under here
RefWrittenYearMonth(event) ==
    CASE event = Event_BayCup  -> 2025101
      [] event = Event_YearEnd -> 202510
      [] event = Event_NewYear -> 202511

\* C21: for every year-month tag that put_monthly_schedule accepts, years of
\* more than 4 digits included, the events it writes are returned only by
\* get_monthly_schedule of that same year-month: get_monthly_schedule(Y')
\* returns no event that was written under another year-month Y
C21_OnlyOwnYearMonth ==
    (ecall.op = "get_monthly_schedule" /\ ecall.res.tag = "Ok") =>
        \A i \in 1..Len(ecall.res.val[1].events) :
            RefWrittenYearMonth(ecall.res.val[1].events[i]) = ecall.args[1]

-----------------------------------------------------------------------------
(* Claims about failed FileStore calls *)

\* C22: a FileStore put, delete or clear that returns an error leaves the
\* store's observable contents unchanged: get of every key, keys and scan on
\* the same handle return what they returned before the failed call
C22_FailedCallChangesNothing ==
    [][(/\ backend = "FileStore"
        /\ call'.op \in {"put", "delete", "clear"}
        /\ call'.res.tag = "Err")
       => /\ \A k \in Keys : FileStore_get(data', k) = FileStore_get(data, k)
          /\ IterOrders(data') = IterOrders(data)
          /\ \A s, e \in Keys : \A order \in IterOrders(data) :
                FileStore_scan(data', order, s, e) = FileStore_scan(data, order, s, e)]_vars

-----------------------------------------------------------------------------
(* Claims about the order of a monthly schedule *)

\* C23: get_monthly_schedule is deterministic in the store contents: on the
\* same set of (key, value) entries it returns the same sequence of events
\* for the year-month, also when several events of the month share a
\* start_date, whatever order the backend's scan yields the entries in
C23_ScheduleIndependentOfScanOrder ==
    ecall.op = "get_monthly_schedule" =>
        \A order \in ScanOrders(data, monthly_scan_range(ecall.args[1])[1],
                                monthly_scan_range(ecall.args[1])[2]) :
            get_monthly_schedule(backend, data, order, ecall.args[1]) = ecall.res

-----------------------------------------------------------------------------
(* Both views on one store: every engine operation *)

\* a record of the group of Event_BayCup and one of "x", the group of no event
FrameRecords == {<<Group_BayCup, <<0, 0, 0, 9>>>>, <<Group_X, <<0, 0, 0, 9>>>>}
FrameGroups == {Group_BayCup, Group_X}
FrameMonths == {202512, 202601}

\* "2025-12" with one event and with two
FrameSchedules ==
    {MonthlySchedule(StatsTag, <<Event_YearEnd>>),
     MonthlySchedule(StatsTag, <<Event_YearEnd, Event_BayCup>>)}

\* the payloads put under a record: "r1", and "r2" for the group of Event_BayCup
FramePayloads(g) == IF g = Group_BayCup THEN RacePayloads ELSE {StatsPayload}

\* a FileStore whose save fails at sync_all in the first put of a call, or never
FrameFaults(b) == {fault \in Faults(b) : fault = NoFault \/ fault = <<1, "sync_err">>}

FrameInit ==
    /\ backend \in {"MemoryStore", "FileStore"}
    /\ data = EmptyMap
    /\ disk = NoFile
    /\ ecall = NoEngineCall
    /\ lastRace = [gt \in FrameRecords |-> None]
    /\ call = NoCall
    /\ lastPut = NeverPut
    /\ kin = NoInput
    /\ kout = NoOutput

FrameNext ==
    \/ \E schedule \in FrameSchedules, fault \in FrameFaults(backend) :
          PutMonthlySchedule(schedule, PlanOf(fault))
    \/ \E fault \in FrameFaults(backend) :
          RegisterTournamentToMonths(Event_BayCup, PlanOf(fault))
    \/ \E gt \in FrameRecords, fault \in FrameFaults(backend) :
          \E payload \in FramePayloads(gt[1]) :
              PutRaceData(gt[1], gt[2], payload, fault[2])
    \/ \E year_month \in FrameMonths :
          \E order \in ScanOrders(data, monthly_scan_range(year_month)[1],
                                  monthly_scan_range(year_month)[2]) :
              GetMonthlySchedule(year_month, order)
    \/ \E tournament_id \in FrameGroups :
          \E order \in ScanOrders(data, tournament_scan_range(tournament_id)[1],
                                  tournament_scan_range(tournament_id)[2]) :
              GetTournamentRaces(tournament_id, order)
    \/ \E gt \in FrameRecords : GetRaceData(gt[1], gt[2])
    \/ \E order \in IterOrders(data) : GetStatistics(order)

SpecFrame == FrameInit /\ [][FrameNext]_vars

-----------------------------------------------------------------------------
(* Claims about what each engine operation touches *)

\* the entries of d1 and d2 differ at most under the keys of own
RefSameOutside(d1, d2, own) ==
    \A k \in (DOMAIN d1 \cup DOMAIN d2) \ own :
        k \in DOMAIN d1 /\ k \in DOMAIN d2 /\ d1[k] = d2[k]

\* every get_monthly_schedule result is the same on d1 and d2
RefSameMonthly(b, d1, d2) ==
    \A year_month \in FrameMonths :
        LET range == monthly_scan_range(year_month)
        IN  /\ ScanOrders(d1, range[1], range[2]) = ScanOrders(d2, range[1], range[2])
            /\ \A order \in ScanOrders(d1, range[1], range[2]) :
                  get_monthly_schedule(b, d1, order, year_month)
                      = get_monthly_schedule(b, d2, order, year_month)

\* every get_tournament_races and get_race_data result is the same on d1 and d2
RefSameRaces(b, d1, d2) ==
    /\ \A g \in FrameGroups :
          LET range == tournament_scan_range(g)
          IN  /\ ScanOrders(d1, range[1], range[2]) = ScanOrders(d2, range[1], range[2])
              /\ \A order \in ScanOrders(d1, range[1], range[2]) :
                    get_tournament_races(b, d1, order, g) = get_tournament_races(b, d2, order, g)
    /\ \A gt \in FrameRecords : get_race_data(b, d1, gt[1], gt[2]) = get_race_data(b, d2, gt[1], gt[2])

\* the monthly keys of a schedule's events under its year-month
RefScheduleKeys(schedule) ==
    {monthly_key(RefNumber(SubSeq(schedule.year_month, 1, 4)) * 100
                     + RefNumber(SubSeq(schedule.year_month, 6, 7)),
                 generate_tournament_id(schedule.events[i].venue_name,
                                        schedule.events[i].event_name)) :
        i \in 1..Len(schedule.events)}

\* C24: the two views are written independently and every engine write
\* touches only its own keys: put_race_data(g, t, p) changes only the key
\* tournament_key(g, t) and leaves every get_monthly_schedule result and
\* every other group record unchanged; put_monthly_schedule and
\* register_tournament_to_months change only the M-prefixed keys of the given
\* events' months and leave every get_tournament_races / get_race_data result
\* and every other monthly entry unchanged; get_monthly_schedule,
\* get_tournament_races, get_race_data and get_statistics change nothing
C24_WritesOwnKeysOnly ==
    [][/\ ecall'.op = "put_race_data" =>
            /\ RefSameOutside(data, data', {tournament_key(ecall'.args[1], ecall'.args[2])})
            /\ RefSameMonthly(backend, data, data')
            /\ \A gt \in FrameRecords \ {<<ecall'.args[1], ecall'.args[2]>>} :
                  get_race_data(backend, data', gt[1], gt[2])
                      = get_race_data(backend, data, gt[1], gt[2])
       /\ ecall'.op = "put_monthly_schedule" =>
            /\ RefSameOutside(data, data', RefScheduleKeys(ecall'.args[1]))
            /\ \A k \in RefScheduleKeys(ecall'.args[1]) : k[1] = PREFIX_MONTHLY
            /\ RefSameRaces(backend, data, data')
       /\ ecall'.op = "register_tournament_to_months" =>
            /\ RefSameOutside(data, data', RefSpanKeys(ecall'.args[1]))
            /\ \A k \in RefSpanKeys(ecall'.args[1]) : k[1] = PREFIX_MONTHLY
            /\ RefSameRaces(backend, data, data')
       /\ ecall'.op \in {"get_monthly_schedule", "get_tournament_races", "get_race_data",
                         "get_statistics"}
            => (data' = data /\ disk' = disk)]_vars

\* a put_race_data that overwrote a record on a store holding monthly entries
\* and a record of another group
C24_Witness ==
    /\ ecall.op = "put_race_data"
    /\ ecall.res.tag = "Ok"
    /\ ecall.args[1] = Group_BayCup
    /\ ecall.args[3] = <<114, 50>>
    /\ tournament_key(Group_X, <<0, 0, 0, 9>>) \in DOMAIN data
    /\ Cardinality(MonthlyEntries(data)) = 3

-----------------------------------------------------------------------------
(* Claims about what a successful registration leaves in the start month *)

\* the year-month of the day an event starts on
RefStartMonth(event) ==
    (RefDateOf(event.start_date).y * 100) + RefDateOf(event.start_date).mo

\* C25: whenever register_tournament_to_months(event) returns Ok, for every
\* duration_days value the u32 field admits, the event is afterwards returned
\* by get_monthly_schedule for the month of its start_date
C25_RegisteredEventListed ==
    (ecall.op = "register_tournament_to_months" /\ ecall.res.tag = "Ok") =>
        LET event == ecall.args[1]
            range == monthly_scan_range(RefStartMonth(event))
        IN  \A order \in ScanOrders(data, range[1], range[2]) :
                LET got == get_monthly_schedule(backend, data, order, RefStartMonth(event))
                IN  /\ got.tag = "Ok"
                    /\ \E i \in 1..Len(got.val[1].events) : got.val[1].events[i] = event

====
